---- MODULE Spec2Model ----
(***************************************************************************)
(* Model of scc.py (snoopycrimecop): candidate selection                   *)
(* (GitRepository.find_candidates), the multi-PR merge engine              *)
(* (GitRepository.merge), the submodule recursion                          *)
(* (GitRepository.submodules), the merge command (Merge.__call__), the     *)
(* branch point search (GitRepository.find_branching_point), the rebase    *)
(* command (Rebase.__call__) and clean-sandbox (CleanSandbox.__call__).    *)
(***************************************************************************)
EXTENDS Integers, Sequences, FiniteSets, TLC

(***************************************************************************)
(* Bounds of the model.                                                    *)
(***************************************************************************)
\* open pull requests of one repository
MaxPulls == 2
\* commits in one rev list
MaxRev == 4
\* commits of a pull request on top of the branch it is opened against
MaxOwn == 2
\* direct submodules of the top-level repository
MaxSub == 2

(***************************************************************************)
(* Value universes.                                                        *)
(***************************************************************************)
Logins == {"alice", "bob"}
Branches == {"develop", "master"}
\* labels a pull request may carry, and labels a filter may name
PullLabels == {"Include", "exclude"}
IncludeArgs == {<< >>, <<"include">>}
ExcludeArgs == {<< >>, <<"EXCLUDE">>}
\* the organisation of the origin repository: absent, or its public members
NoOrg == [present |-> FALSE, members |-> {}]
Orgs == {NoOrg, [present |-> TRUE, members |-> {"alice"}]}

\* str.lower() on the labels of the universes
Lower(s) ==
    CASE s = "Include" -> "include"
      [] s = "INCLUDE" -> "include"
      [] s = "EXCLUDE" -> "exclude"
      [] s = "Exclude" -> "exclude"
      [] OTHER -> s

Range(s) == {s[i] : i \in DOMAIN s}

(***************************************************************************)
(* Repositories are identified with their directories: 0 is the top-level  *)
(* repository, 1..MaxSub its submodules, MaxSub + j the submodule of j.    *)
(***************************************************************************)
Main == 0
Nested(j) == MaxSub + j
Repos == 0 .. (2 * MaxSub)
NoDir == 0 - 1

VARIABLES
    pc,               \* position of the running command
    args,             \* parsed command line of the merge command
    org,              \* organisation of the origin repositories
    submods,          \* repo -> sequence of its registered submodule paths
    origin_pulls,     \* repo -> answer of origin.get_pulls()
    candidate_pulls,  \* repo -> GitRepository.candidate_pulls
    cwd,              \* process working directory
    head,             \* repo -> history of the checked out branch
    dirty,            \* repo -> a failed merge left the tree unmerged
    remotes,          \* repo -> logins whose merge_<login> remote is registered
    stack,            \* frames of GitRepository.submodules
    exc,              \* exception in flight
    m,                \* locals of GitRepository.merge
    pending,          \* keys of remotes() still to be visited by a loop
    comments,         \* issue comments created: {<<repo, number>>}
    token,            \* get_token() finds a github.token
    conflicts,        \* numbers of the pulls whose merge fails
    contained,        \* numbers of the pulls whose head the branch has already
    trace,            \* calls made so far, each with its return status
    revs,             \* find_branching_point: the two rev lists, the result
    git,              \* rebase: the clone, the fork and the hosting service
    rb,               \* rebase: parsed command line and locals of the run
    directories,      \* repo -> the file directories.txt of its directory
    sandbox           \* clean-sandbox: command line, branches of the fork

vars == << pc, args, org, submods, origin_pulls, candidate_pulls, cwd, head,
           dirty, remotes, stack, exc, m, pending, comments, token, conflicts,
           trace, revs, git, rb, directories, contained, sandbox >>

(***************************************************************************)
(* PullRequest: the fields of a pull that the selection and the merge read *)
(***************************************************************************)
Pull(n, u, b, ls) ==
    [number |-> n, user |-> u, head_login |-> u, base |-> b, labels |-> ls,
     comments |-> << >>]

PullShapes == { Pull(0, u, b, ls) : u \in Logins, b \in Branches,
                                     ls \in SUBSET PullLabels }

get_number(p) == p.number

\* GitHubRepository.is_whitelisted
is_whitelisted(o, user) ==
    IF o.present THEN user \in o.members ELSE FALSE

\* the sort of candidate_pulls: a stable insertion sort on get_number
RECURSIVE InsertByNumber(_, _)
InsertByNumber(s, p) ==
    IF s = << >> THEN << p >>
    ELSE IF get_number(p) < get_number(Head(s))
         THEN << p >> \o s
         ELSE << Head(s) >> \o InsertByNumber(Tail(s), p)

\* a selection that leaves the candidates in the order of the listing
Unsorted(s) == s

RECURSIVE SortByNumber(_)
SortByNumber(s) ==
    IF s = << >> THEN << >>
    ELSE InsertByNumber(SortByNumber(SubSeq(s, 1, Len(s) - 1)), s[Len(s)])

\* a selection that looks at the exclude labels only for the pulls that
\* were found by an include label
AcceptedTrusting(pull, filters, o) ==
    LET labels == {Lower(x) : x \in pull.labels}
        whitelisted == is_whitelisted(o, pull.user)
        whitelist == SelectSeq(filters.include, LAMBDA f : Lower(f) \in labels)
        blacklist == SelectSeq(filters.exclude, LAMBDA f : Lower(f) \in labels)
        excluded == filters.exclude # << >> /\ blacklist # << >>
    IN  IF whitelisted THEN TRUE
        ELSE filters.include # << >> /\ whitelist # << >> /\ ~excluded

\* the body of the loop with the labels of the pull compared as they are
AcceptedCaseSensitive(pull, filters, o) ==
    LET labels == pull.labels
        whitelisted == is_whitelisted(o, pull.user)
        whitelist == SelectSeq(filters.include, LAMBDA f : Lower(f) \in labels)
        found == IF whitelisted THEN TRUE
                 ELSE filters.include # << >> /\ whitelist # << >>
        blacklist == SelectSeq(filters.exclude, LAMBDA f : Lower(f) \in labels)
        excluded == filters.exclude # << >> /\ blacklist # << >>
    IN  found /\ ~excluded

\* the body of the loop of find_candidates for one pull: is it appended?
Accepted(pull, filters, o) ==
    LET labels == {Lower(x) : x \in pull.labels}
        whitelisted == is_whitelisted(o, pull.user)
        whitelist == SelectSeq(filters.include, LAMBDA f : Lower(f) \in labels)
        found == IF whitelisted THEN TRUE
                 ELSE filters.include # << >> /\ whitelist # << >>
        blacklist == SelectSeq(filters.exclude, LAMBDA f : Lower(f) \in labels)
        excluded == filters.exclude # << >> /\ blacklist # << >>
    IN  found /\ ~excluded

\* line.startswith("--test"): a line is the list of its pieces, the text
\* "--test" being a piece of its own wherever it occurs
startswith_test(line) == line # << >> /\ Head(line) = "--test"

\* line.replace("--test", ""): every occurrence is removed
replace_test(line) == SelectSeq(line, LAMBDA piece : piece # "--test")

Flat(seqs) ==
    LET F[i \in 0 .. Len(seqs)] == IF i = 0 THEN << >> ELSE F[i - 1] \o seqs[i]
    IN  F[Len(seqs)]

\* PullRequest.test_directories: of every line of every comment that starts
\* with "--test", what is left of the line without "--test"
test_directories(pull) ==
    LET lines == Flat(pull.comments)
        tests == SelectSeq(lines, startswith_test)
    IN  [i \in DOMAIN tests |-> replace_test(tests[i])]

\* directories.txt as no call of find_candidates has opened it
NoFile == [open |-> FALSE, lines |-> << >>]

\* the pulls whose directories are looked at: every pull against the base
logged_all(against, appended) == against

\* the pulls whose directories are looked at: those just appended
logged(against, appended) == appended

\* the file directories.txt after the loop of find_candidates: opened for
\* writing by the first pull that asks for directories, then one line per
\* directory; left as it was when no pull asks for any
directories_txt(old, pulls) ==
    LET asked == Flat([i \in DOMAIN pulls |-> test_directories(pulls[i])])
    IN  IF asked = << >> THEN old ELSE [open |-> TRUE, lines |-> asked]

\* the filters dictionary built by Merge.merge; a missing --include or
\* --exclude (None) and an empty one are both the empty sequence
Filters(a) ==
    [dict |-> TRUE, base |-> a.base, include |-> a.include,
     exclude |-> a.exclude]

\* a boolean where a filters dictionary is expected
BoolValue(b) == [dict |-> FALSE, value |-> b]

\* GitRepository.find_candidates: the new value of candidate_pulls
find_candidates(old, pulls, filters, o) ==
    LET against == SelectSeq(pulls, LAMBDA p : p.base = filters.base)
        appended == old \o SelectSeq(against, LAMBDA p : Accepted(p, filters, o))
    IN  SortByNumber(appended)

\* GitRepository.find_candidates: the file it leaves in its directory
find_directories(file, pulls, filters, o) ==
    LET against == SelectSeq(pulls, LAMBDA p : p.base = filters.base)
        appended == SelectSeq(against, LAMBDA p : Accepted(p, filters, o))
    IN  directories_txt(file, logged(against, appended))

(***************************************************************************)
(* GitRepository.find_branching_point and the difflib.SequenceMatcher it   *)
(* uses. Indices are those of Python: the first element has index 0.       *)
(***************************************************************************)
Commits == 1 .. (MaxRev + 2)

\* GitRepository.get_rev_list: the lines of "git rev-list --first-parent",
\* newest commit first, or False when git wrote to stderr or failed
RevList(lines) == [ok |-> TRUE, lines |-> lines]
RevListFailed == [ok |-> FALSE, lines |-> << >>]

\* difflib.Match(a, b, size)
Match(i, j, k) == [a |-> i, b |-> j, size |-> k]

\* the length of the run of equal elements that starts at a[i] and b[j]
RECURSIVE RunLength(_, _, _, _, _, _)
RunLength(a, b, i, j, ahi, bhi) ==
    IF i < ahi /\ j < bhi /\ a[i + 1] = b[j + 1]
    THEN 1 + RunLength(a, b, i + 1, j + 1, ahi, bhi)
    ELSE 0

\* SequenceMatcher.find_longest_match without junk: the longest matching
\* block in a[alo:ahi] and b[blo:bhi]; of those the one that starts earliest
\* in a, and of those the one that starts earliest in b
find_longest_match(a, b, alo, ahi, blo, bhi) ==
    LET starts == { st \in (alo .. (ahi - 1)) \X (blo .. (bhi - 1)) :
                      a[st[1] + 1] = b[st[2] + 1] }
        size(st) == RunLength(a, b, st[1], st[2], ahi, bhi)
        longest == { st \in starts : \A o \in starts : size(o) <= size(st) }
        first == CHOOSE st \in longest :
                    \A o \in longest :
                        \/ st[1] < o[1]
                        \/ st[1] = o[1] /\ st[2] <= o[2]
    IN  IF starts = {} THEN Match(alo, blo, 0)
        ELSE Match(first[1], first[2], size(first))

\* the recursion of get_matching_blocks: the longest match, then the
\* pieces to its left and to its right, in the order of the sequences
RECURSIVE matching_blocks(_, _, _, _, _, _)
matching_blocks(a, b, alo, ahi, blo, bhi) ==
    LET x == find_longest_match(a, b, alo, ahi, blo, bhi) IN
        IF x.size = 0 THEN << >>
        ELSE (IF alo < x.a /\ blo < x.b
              THEN matching_blocks(a, b, alo, x.a, blo, x.b) ELSE << >>)
             \o << x >>
             \o (IF x.a + x.size < ahi /\ x.b + x.size < bhi
                 THEN matching_blocks(a, b, x.a + x.size, ahi,
                                      x.b + x.size, bhi)
                 ELSE << >>)

\* adjacent blocks are collapsed into one
RECURSIVE collapse(_)
collapse(blocks) ==
    IF Len(blocks) < 2 THEN blocks
    ELSE LET x == blocks[1]
             y == blocks[2]
         IN  IF x.a + x.size = y.a /\ x.b + x.size = y.b
             THEN collapse(<< Match(x.a, x.b, x.size + y.size) >>
                           \o SubSeq(blocks, 3, Len(blocks)))
             ELSE << x >> \o collapse(Tail(blocks))

\* SequenceMatcher.get_matching_blocks: the blocks and the closing dummy
get_matching_blocks(a, b) ==
    collapse(matching_blocks(a, b, 0, Len(a), 0, Len(b)))
        \o << Match(Len(a), Len(b), 0) >>

\* the last block that matches anything
last_block(blocks) ==
    IF Len(blocks) > 1 THEN blocks[Len(blocks) - 1] ELSE blocks[1]

\* matching_block[0]
first_block(blocks) == blocks[1]

\* the offset of the block in the second list, read in the first list
topic_at(topic_lines, main_lines, block) ==
    IF block.b + 1 \in DOMAIN topic_lines
    THEN topic_lines[block.b + 1] ELSE main_lines[block.b + 1]

\* main_revlist[matching_block[0].b]
sha1_at(topic_lines, main_lines, block) == main_lines[block.b + 1]

\* the error of find_branching_point when nothing matches
NoMatchingBlock == "No matching block found"

\* a search that falls back on the tip of the main branch
falls_back(topic_revlist, main_revlist) ==
    [exc |-> "none", msg |-> "",
     sha1 |-> IF main_revlist.lines = << >> THEN 0
              ELSE main_revlist.lines[1]]

\* GitRepository.find_branching_point on the answers of get_rev_list: a
\* False in place of a list makes len() raise TypeError
find_branching_point(topic_revlist, main_revlist) ==
    IF ~topic_revlist.ok \/ ~main_revlist.ok
    THEN [exc |-> "TypeError", msg |-> "", sha1 |-> 0]
    ELSE LET matching_block ==
                 get_matching_blocks(topic_revlist.lines, main_revlist.lines)
             block == first_block(matching_block)
         IN  IF block.size = 0
             THEN [exc |-> "Exception", msg |-> NoMatchingBlock, sha1 |-> 0]
             ELSE [exc |-> "none", msg |-> "",
                   sha1 |-> sha1_at(topic_revlist.lines, main_revlist.lines,
                                    block)]

(***************************************************************************)
(* Inputs.                                                                 *)
(***************************************************************************)
Injective(f) == \A i, j \in DOMAIN f : f[i] = f[j] => i = j

\* orders in which the hosting service may list pulls 1..k
NumberSeqs(k) ==
    { s \in UNION { [1..n -> 1..k] : n \in 0..k } : Injective(s) }

PullLists(k, shapes) ==
    UNION { { [i \in DOMAIN ns |-> [sh[i] EXCEPT !.number = ns[i]]] :
                sh \in [DOMAIN ns -> shapes] } : ns \in NumberSeqs(k) }

NoArgs ==
    [base |-> "develop", include |-> << >>, exclude |-> << >>,
     info |-> FALSE, comment |-> FALSE, buildnumber |-> FALSE]

IdleMerge ==
    [self |-> NoDir, comment |-> FALSE, commit_id |-> << >>, idx |-> 0,
     premerge_sha |-> << >>, merged_pulls |-> << >>,
     conflicting_pulls |-> << >>, ret |-> "none"]

(***************************************************************************)
(* The clone of a rebase run. A commit is a number and a history is the    *)
(* list "git rev-list --first-parent" prints for it, newest commit first;  *)
(* a sha names the history that ends in it.                                *)
(***************************************************************************)
\* origin/dev_4_4, the branch the pull request is opened against
BaseHistory == << 2, 1 >>

\* the branch checked out when the run starts
MasterHistory == << 4, 1 >>

\* a history that shares no commit with the others
UnrelatedHistory == << 7 >>

\* the k commits of the pull request, newest first
OwnCommits(k) == [i \in 1 .. k |-> 10 + (k + 1 - i)]

\* pr.head.sha: the commits of the pull request on top of its base, or on
\* top of an unrelated history
PullHead(k, related) ==
    OwnCommits(k) \o (IF related THEN BaseHistory ELSE UnrelatedHistory)

NewBaseKinds == {"diverged", "ahead", "merged"}

\* <remote>/<newbase>: diverged from the base of the pull request, ahead of
\* it, or ahead of the head of the pull request
NewBaseHistory(kind, pr_head) ==
    CASE kind = "diverged" -> << 3, 1 >>
      [] kind = "ahead" -> << 3 >> \o BaseHistory
      [] OTHER -> << 3 >> \o pr_head

\* the commit a rebase makes of commit c
Copy(c) == 100 + c

\* h from commit c on: the history of c, when c is on h
RECURSIVE Behind(_, _)
Behind(h, c) ==
    IF h = << >> THEN << >>
    ELSE IF Head(h) = c THEN h ELSE Behind(Tail(h), c)

\* is history a the end of history b: is a's commit an ancestor of b's?
IsAncestor(a, b) ==
    Len(a) <= Len(b) /\ SubSeq(b, Len(b) - Len(a) + 1, Len(b)) = a

\* sha1[0:6]
abbreviated(sha1) == [prefix |-> sha1]

\* the commit git resolves an abbreviated sha to, when it is unique
resolved(abbreviation) == abbreviation.prefix

\* a rebase that copies every commit that is not behind upstream
rebase_all(newbase, upstream, sha1) ==
    LET behind == Range(Behind(sha1, resolved(upstream)))
        todo == SelectSeq(sha1, LAMBDA c : c \notin behind)
    IN  [i \in DOMAIN todo |-> Copy(todo[i])] \o newbase

\* "git rebase --onto <newbase> <upstream> <sha1>": the commits of sha1 that
\* are neither behind upstream nor on newbase, copied on top of newbase
rebase_onto(newbase, upstream, sha1) ==
    LET behind == Range(Behind(sha1, resolved(upstream)))
        todo == SelectSeq(sha1, LAMBDA c : c \notin behind
                                            /\ c \notin Range(newbase))
    IN  [i \in DOMAIN todo |-> Copy(todo[i])] \o newbase

\* the pull request the run is given, as the hosting service answers
NoPull ==
    [exists |-> FALSE, head |-> << >>, head_ref |-> "topic",
     base_ref |-> "dev_4_4"]

\* no rev list read, no clone looked at, no rebase run
NoRevs == [topic |-> RevList(<< >>), main |-> RevList(<< >>), sha1 |-> 0]
NoGit ==
    [remotes |-> {}, pull |-> NoPull, base |-> << >>, newbase |-> << >>,
     head |-> [ref |-> "master", history |-> << >>], local |-> << >>,
     fork |-> << >>, pulls |-> {}, rebasing |-> FALSE]

NoRebase ==
    [remote |-> "origin", push |-> TRUE, pr |-> TRUE, delete |-> TRUE,
     again |-> FALSE, initial |-> NoGit,
     old_branch |-> [ref |-> "", history |-> << >>], pr_head |-> << >>,
     branching_sha1 |-> 0, onto |-> << >>, upstream |-> abbreviated(0),
     rebased |-> << >>, msg |-> ""]

\* no clean-sandbox run
NoSandbox ==
    [force |-> FALSE, dry_run |-> FALSE, skip |-> << >>, fork |-> {},
     initial |-> {}, branches |-> << >>, idx |-> 1, printed |-> << >>]

Quiet ==
    /\ submods = [r \in Repos |-> << >>]
    /\ candidate_pulls = [r \in Repos |-> << >>]
    /\ cwd = Main
    /\ head = [r \in Repos |-> << >>]
    /\ dirty = [r \in Repos |-> FALSE]
    /\ remotes = [r \in Repos |-> {}]
    /\ stack = << >>
    /\ exc = "none"
    /\ m = IdleMerge
    /\ pending = << >>
    /\ comments = {}
    /\ token = FALSE
    /\ conflicts = {}
    /\ trace = << >>
    /\ revs = NoRevs
    /\ git = NoGit
    /\ rb = NoRebase
    /\ directories = [r \in Repos |-> NoFile]
    /\ contained = {}
    /\ sandbox = NoSandbox

(***************************************************************************)
(* Selection runs: one call of find_candidates on a fresh GitRepository,   *)
(* over every answer of the hosting service within the bounds.             *)
(***************************************************************************)
SelectInit ==
    /\ pc = "select"
    /\ \E inc \in IncludeArgs, exc_ \in ExcludeArgs :
          args = [NoArgs EXCEPT !.include = inc, !.exclude = exc_]
    /\ org \in Orgs
    /\ origin_pulls = [r \in Repos |-> << >>]
    /\ Quiet

\* the hosting service lists one more open pull, of a number not yet listed
SelectOpen ==
    /\ pc = "select"
    /\ Len(origin_pulls[Main]) < MaxPulls
    /\ \E shape \in PullShapes,
          n \in (1..MaxPulls) \ { p.number : p \in Range(origin_pulls[Main]) } :
          origin_pulls' =
            [origin_pulls EXCEPT ![Main] = Append(@, [shape EXCEPT !.number = n])]
    /\ UNCHANGED << pc, args, org, submods, candidate_pulls, cwd, head, dirty,
                    remotes, stack, exc, m, pending, comments, token,
                    conflicts, trace, revs, git, rb, directories,
                    contained, sandbox >>

SelectFind ==
    /\ pc = "select"
    /\ candidate_pulls' =
          [candidate_pulls EXCEPT ![Main] =
              find_candidates(candidate_pulls[Main], origin_pulls[Main],
                              Filters(args), org)]
    /\ directories' =
          [directories EXCEPT ![Main] =
              find_directories(@, origin_pulls[Main], Filters(args), org)]
    /\ pc' = "selected"
    /\ UNCHANGED << sandbox, contained, revs, git, rb, token, conflicts, args, org, submods, origin_pulls, cwd, head, dirty,
                    remotes, stack, exc, m, pending, comments, trace >>

SelectNext == SelectOpen \/ SelectFind

SelectSpec == SelectInit /\ [][SelectNext]_vars

(***************************************************************************)
(* Selection runs over pulls that carry comments: what a call of           *)
(* find_candidates leaves in directories.txt.                              *)
(***************************************************************************)
\* the comments of an issue, each a list of lines: none; one comment that
\* asks for a directory; two comments that ask for two directories and
\* mention "--test" inside a line
CommentChoices ==
    { << >>,
      << << << "Looks good" >>, << "--test", " components/a" >> >> >>,
      << << << "--test", " components/b" >> >>,
         << << "see ", "--test", " components/c" >>,
            << "--test", " components/d", "--test" >> >> >> }

\* pulls with comments: of a public member, of somebody else without and
\* with an include label, with an exclude label, against another branch
DirShapes ==
    { [Pull(0, c[1], "develop", c[2]) EXCEPT !.comments = cs] :
         c \in { << "alice", {} >>, << "bob", {} >>, << "bob", {"Include"} >>,
                 << "alice", {"exclude"} >> },
         cs \in CommentChoices }
    \cup { [Pull(0, "alice", "master", {}) EXCEPT
              !.comments = << << << "--test", " components/a" >> >> >>] }

DirInit ==
    /\ pc = "select"
    /\ \E exc_ \in ExcludeArgs :
          args = [NoArgs EXCEPT !.include = <<"include">>, !.exclude = exc_]
    /\ org = [present |-> TRUE, members |-> {"alice"}]
    /\ origin_pulls = [r \in Repos |-> << >>]
    /\ Quiet

\* the hosting service lists one more open pull, with its comments
DirOpen ==
    /\ pc = "select"
    /\ Len(origin_pulls[Main]) < MaxPulls
    /\ \E shape \in DirShapes,
          n \in (1..MaxPulls) \ { p.number : p \in Range(origin_pulls[Main]) } :
          origin_pulls' =
            [origin_pulls EXCEPT ![Main] = Append(@, [shape EXCEPT !.number = n])]
    /\ UNCHANGED << pc, args, org, submods, candidate_pulls, cwd, head, dirty,
                    remotes, stack, exc, m, pending, comments, token,
                    conflicts, trace, revs, git, rb, directories,
                    contained, sandbox >>

DirNext == DirOpen \/ SelectFind

DirSpec == DirInit /\ [][DirNext]_vars

(***************************************************************************)
(* Branch point runs: one call of find_branching_point, over every pair of *)
(* histories within the bounds. The topic history is 1, 2, ... (any        *)
(* history is this one up to the names of its commits); the main history   *)
(* is any list of distinct commits.                                        *)
(***************************************************************************)
BranchInit ==
    /\ pc = "revs"
    /\ args = NoArgs
    /\ org = NoOrg
    /\ origin_pulls = [r \in Repos |-> << >>]
    /\ Quiet

\* the topic branch has one more commit behind it
RevTopic ==
    /\ pc = "revs"
    /\ revs.main.lines = << >>
    /\ Len(revs.topic.lines) < MaxRev
    /\ revs' = [revs EXCEPT !.topic.lines = Append(@, Len(@) + 1)]
    /\ UNCHANGED << pc, args, org, submods, origin_pulls, candidate_pulls,
                    cwd, head, dirty, remotes, stack, exc, m, pending,
                    comments, token, conflicts, trace, git, rb,
                    directories, contained, sandbox >>

\* the main branch has one more commit behind it
RevMain ==
    /\ pc = "revs"
    /\ Len(revs.main.lines) < MaxRev
    /\ \E c \in Commits \ Range(revs.main.lines) :
          revs' = [revs EXCEPT !.main.lines = Append(@, c)]
    /\ UNCHANGED << pc, args, org, submods, origin_pulls, candidate_pulls,
                    cwd, head, dirty, remotes, stack, exc, m, pending,
                    comments, token, conflicts, trace, git, rb,
                    directories, contained, sandbox >>

\* find_branching_point(topic_branch, main_branch): each get_rev_list
\* answers with the history or with False
BranchFind ==
    /\ pc = "revs"
    /\ \E topic_revlist \in {revs.topic, RevListFailed},
          main_revlist \in {revs.main, RevListFailed} :
          LET r == find_branching_point(topic_revlist, main_revlist) IN
              /\ revs' = [topic |-> topic_revlist, main |-> main_revlist,
                          sha1 |-> r.sha1]
              /\ exc' = r.exc
              /\ pc' = IF r.exc = "none" THEN "found" ELSE "failed"
    /\ UNCHANGED << args, org, submods, origin_pulls, candidate_pulls, cwd,
                    head, dirty, remotes, stack, m, pending, comments, token,
                    conflicts, trace, git, rb, directories, contained, sandbox >>

BranchNext == RevTopic \/ RevMain \/ BranchFind

BranchSpec == BranchInit /\ [][BranchNext]_vars

(***************************************************************************)
(* Merge runs: Merge.__call__ on a working tree with submodules.           *)
(***************************************************************************)
\* pulls a repository of a merge run may have open, all against the base
\* of the run: of alice, a public member, or of bob with an include label
RepoPullShapes ==
    { Pull(0, "alice", "develop", {}),
      Pull(0, "bob", "develop", {"Include"}) }

\* the answers of get_pulls() in a merge run: newest first, the oldest
\* pull being one of alice
RepoPullLists(k) ==
    { l \in PullLists(k, RepoPullShapes) :
        /\ \A i \in DOMAIN l : l[i].number = Len(l) + 1 - i
        /\ l # << >> => l[Len(l)].user = "alice" }

\* the registered submodules: the top-level repository has k of them, and
\* each of the submodules in nest has one submodule of its own
Tree(k, nest) ==
    [r \in Repos |->
        IF r = Main THEN [i \in 1..k |-> i]
        ELSE IF r \in nest THEN << Nested(r) >>
        ELSE << >>]

TreeChoices ==
    { c \in (0..MaxSub) \X (SUBSET (1..MaxSub)) :
        c[2] \subseteq 1..c[1] /\ Cardinality(c[2]) <= 1 }

Trees == { Tree(c[1], c[2]) : c \in TreeChoices }

\* --buildnumber is read once, at the end of Merge.merge, and drawn there
MergeArgs ==
    { [base |-> "develop", include |-> <<"include">>,
       exclude |-> <<"EXCLUDE">>, info |-> i, comment |-> c,
       buildnumber |-> FALSE] : i \in BOOLEAN, c \in BOOLEAN }

\* a merge run: every repository of the working tree has the same open
\* pulls, and the same pulls fail to merge in each; no pull is merged
\* already
Init ==
    /\ pc = "start"
    /\ args \in MergeArgs
    /\ org = [present |-> TRUE, members |-> {"alice"}]
    /\ \E pulls \in RepoPullLists(MaxPulls) :
          /\ origin_pulls = [r \in Repos |-> pulls]
          /\ conflicts \in SUBSET { pulls[i].number : i \in DOMAIN pulls }
    /\ submods \in Trees
    /\ candidate_pulls = [r \in Repos |-> << >>]
    /\ cwd = Main
    /\ head = [r \in Repos |-> << >>]
    /\ dirty = [r \in Repos |-> FALSE]
    /\ remotes = [r \in Repos |-> {}]
    /\ stack = << >>
    /\ exc = "none"
    /\ m = IdleMerge
    /\ pending = << >>
    /\ comments = {}
    /\ token \in (IF args.comment THEN BOOLEAN ELSE {FALSE})
    /\ trace = << >>
    /\ revs = NoRevs
    /\ git = NoGit
    /\ rb = NoRebase
    /\ directories = [r \in Repos |-> NoFile]
    /\ contained = {}
    /\ sandbox = NoSandbox

\* one call of git or of the hosting service, with its return status
Event(ev, repo, pr, key, ok) ==
    [ev |-> ev, repo |-> repo, pr |-> pr, key |-> key, ok |-> ok, dir |-> cwd]

Log(e) == trace' = Append(trace, e)

\* join of the labels with a separator, each label preceded by it
RECURSIVE Joined(_, _)
Joined(sep, labels) ==
    IF labels = << >> THEN << >>
    ELSE << sep, Head(labels) >> \o Joined(sep, Tail(labels))

\* Merge.merge.commit_id: "merge_into_<base>[+inc+inc][-exc-exc]"
commit_id(filters) ==
    << "merge", "_into_", filters.base >>
        \o (IF filters.include # << >> THEN Joined("+", filters.include)
            ELSE << >>)
        \o (IF filters.exclude # << >> THEN Joined("-", filters.exclude)
            ELSE << >>)

\* the default of the commit_id parameter of merge and submodules
DefaultCommitId == << "merge" >>

MergeCommit(id, pull) == [kind |-> "merge", id |-> id, pr |-> pull.number]
UpdateCommit(id) == [kind |-> "update", id |-> id, pr |-> 0]
ForwardCommit == [kind |-> "ff", id |-> << >>, pr |-> 0]

\* the login of the first candidate only
first_login(pulls) ==
    IF pulls = << >> THEN {} ELSE {pulls[1].head_login}

\* GitRepository.unique_logins
unique_logins(pulls) == { pulls[i].head_login : i \in DOMAIN pulls }

\* the order in which the keys of a dictionary over the logins are visited:
\* the same for every dictionary built from the same candidates
RECURSIVE KeyOrder(_)
KeyOrder(pulls) ==
    IF pulls = << >> THEN << >>
    ELSE LET rest == KeyOrder(SubSeq(pulls, 1, Len(pulls) - 1))
             login == pulls[Len(pulls)].head_login
         IN  IF login \in Range(rest) THEN rest ELSE Append(rest, login)

\* GitRepository.remotes: the keys merge_<login>, one per unique login
remote_keys(pulls) ==
    SelectSeq(KeyOrder(pulls), LAMBDA k : k \in unique_logins(pulls))

\* where an exception raised under the frames stk is handled first: the
\* finally of the innermost submodule loop, else the one of Merge.__call__
Handler(stk) == IF stk = << >> THEN "finally" ELSE "s_cleanup"

Top == stack[Len(stack)]
Pop(stk) == SubSeq(stk, 1, Len(stk) - 1)
SetTop(f) == [stack EXCEPT ![Len(stack)] = f]

\* GitRepository.__init__ of the top-level repository, before the try
MainConstruct ==
    /\ pc = "start"
    /\ \/ /\ pc' = "find"
          /\ Log(Event("construct", Main, 0, "", TRUE))
          /\ exc' = exc
       \/ /\ pc' = "failed"
          /\ Log(Event("construct", Main, 0, "", FALSE))
          /\ exc' = "Exception"
    /\ UNCHANGED << sandbox, contained, directories, revs, git, rb, token, conflicts, args, org, submods, origin_pulls, candidate_pulls, cwd,
                    head, dirty, remotes, stack, m, pending, comments >>

\* the call of merge(comment, commit_id) on repository self
EnterMerge(self, comment, id, ret) ==
    /\ m' = [self |-> self, comment |-> comment, commit_id |-> id, idx |-> 1,
             premerge_sha |-> << >>, merged_pulls |-> << >>,
             conflicting_pulls |-> << >>, ret |-> ret]
    /\ pending' = remote_keys(candidate_pulls'[self])
    /\ pc' = "m_remotes"

\* find_candidates as a step of a run: the listing of the pulls or the
\* fetch of an issue may fail, leaving the pulls accepted so far unsorted
FindStep(self, filters, onSuccess) ==
    LET pulls == origin_pulls[self] IN
        \/ /\ candidate_pulls' =
                [candidate_pulls EXCEPT ![self] =
                    find_candidates(candidate_pulls[self], pulls, filters, org)]
           /\ directories' =
                [directories EXCEPT ![self] =
                    find_directories(@, pulls, filters, org)]
           /\ Log(Event("find_candidates", self, 0, "", TRUE))
           /\ exc' = exc
           /\ onSuccess
        \/ /\ \E n \in 0..(Len(pulls) - 1) :
                candidate_pulls' =
                  [candidate_pulls EXCEPT ![self] =
                      candidate_pulls[self] \o
                      SelectSeq(SubSeq(pulls, 1, n),
                                LAMBDA p : /\ p.base = filters.base
                                           /\ Accepted(p, filters, org))]
                /\ directories' =
                     [directories EXCEPT ![self] =
                         find_directories(@, SubSeq(pulls, 1, n), filters,
                                          org)]
           /\ Log(Event("find_candidates", self, 0, "", FALSE))
           /\ exc' = "Exception"
           /\ pc' = Handler(stack)
           /\ UNCHANGED << m, pending >>

\* Merge.merge up to the call of main_repo.merge
MainFind ==
    /\ pc = "find"
    /\ FindStep(Main, Filters(args),
                IF args.info
                THEN pc' = "submodules" /\ UNCHANGED << m, pending >>
                ELSE EnterMerge(Main, args.comment, commit_id(Filters(args)),
                                "submodules"))
    /\ UNCHANGED << sandbox, contained, revs, git, rb, token, conflicts, args, org, submods, origin_pulls, cwd, head, dirty,
                    remotes, stack, comments >>

Raise(e, stk) ==
    /\ exc' = e
    /\ pc' = Handler(stk)

\* GitRepository.merge: "git remote add" and "git fetch" for the next key
\* of remotes()
MergeAddRemote ==
    /\ pc = "m_remotes"
    /\ pending # << >>
    /\ LET key == Head(pending) IN
          \/ /\ Log(Event("remote_add", cwd, 0, key, FALSE))
             /\ Raise("Exception", stack)
             /\ UNCHANGED << remotes, pending >>
          \/ /\ key \notin remotes[cwd]
             /\ remotes' = [remotes EXCEPT ![cwd] = @ \cup {key}]
             /\ trace' = trace \o << Event("remote_add", cwd, 0, key, TRUE),
                                     Event("fetch", cwd, 0, key, FALSE) >>
             /\ Raise("Exception", stack)
             /\ UNCHANGED pending
          \/ /\ key \notin remotes[cwd]
             /\ remotes' = [remotes EXCEPT ![cwd] = @ \cup {key}]
             /\ trace' = trace \o << Event("remote_add", cwd, 0, key, TRUE),
                                     Event("fetch", cwd, 0, key, TRUE) >>
             /\ pending' = Tail(pending)
             /\ UNCHANGED << pc, exc >>
    /\ UNCHANGED << sandbox, contained, directories, revs, git, rb, token, conflicts, args, org, submods, origin_pulls,
                    candidate_pulls, cwd, head, dirty, stack, m, comments >>

MergeRemotesDone ==
    /\ pc = "m_remotes"
    /\ pending = << >>
    /\ pc' = "m_loop"
    /\ UNCHANGED << sandbox, contained, directories, revs, git, rb, token, conflicts, args, org, submods, origin_pulls, candidate_pulls, cwd,
                    head, dirty, remotes, stack, exc, m, pending, comments, trace >>

\* a reset to the commit the run started from
reset_to_start(h, sha) == << >>

\* a reset to the commit before the one named
reset_before(h, sha) ==
    IF sha = << >> THEN sha ELSE SubSeq(sha, 1, Len(sha) - 1)

\* "git reset --hard <sha>"
reset_hard(h, sha) == sha

\* a conflict recorded as merged as well
record_both(mrec, pullrequest) ==
    [mrec EXCEPT !.conflicting_pulls = Append(@, pullrequest),
                 !.merged_pulls = Append(@, pullrequest)]

\* conflicting_pulls.append(pullrequest)
record_conflict(mrec, pullrequest) ==
    [mrec EXCEPT !.conflicting_pulls = Append(@, pullrequest)]

\* the for loop of merge goes on to its next candidate
next_candidate(mrec) == [mrec EXCEPT !.idx = @ + 1]

\* a loop that is left when the except clause has run
stop_loop(mrec) ==
    [mrec EXCEPT !.idx = Len(candidate_pulls[mrec.self]) + 1]

\* the except clause falls through to the end of the loop body
after_conflict(mrec) == next_candidate(mrec)

\* a merge that fast-forwards: HEAD moves and no commit is created
merge_ff(h, commit) == h

\* "git merge --no-ff -m <message> <sha>" that succeeds: one merge commit
merge_no_ff(h, commit) == Append(h, commit)

\* GitRepository.merge, loop body up to the except clause: "git rev-parse
\* HEAD", then "git merge --no-ff" of the candidate's sha, which fails,
\* creates a merge commit, or finds the sha in the branch already and
\* returns 0 without a commit ("Already up-to-date.")
MergeAttempt ==
    /\ pc = "m_loop"
    /\ m.idx <= Len(candidate_pulls[m.self])
    /\ LET pullrequest == candidate_pulls[m.self][m.idx] IN
          \/ /\ Log(Event("rev_parse", cwd, pullrequest.number, "", FALSE))
             /\ Raise("Exception", stack)
             /\ UNCHANGED << head, dirty, m >>
          \/ /\ pullrequest.number \in contained \ conflicts
             /\ trace' = trace \o
                    << Event("rev_parse", cwd, pullrequest.number, "", TRUE),
                       Event("merge", cwd, pullrequest.number, "up to date",
                             TRUE) >>
             /\ m' = next_candidate(
                        [m EXCEPT !.premerge_sha = head[cwd],
                                  !.merged_pulls = Append(@, pullrequest)])
             /\ UNCHANGED << pc, exc, dirty, head >>
          \/ /\ pullrequest.number \notin conflicts \cup contained
             /\ trace' = trace \o
                    << Event("rev_parse", cwd, pullrequest.number, "", TRUE),
                       Event("merge", cwd, pullrequest.number, "", TRUE) >>
             /\ head' = [head EXCEPT ![cwd] =
                            merge_no_ff(@, MergeCommit(m.commit_id,
                                                       pullrequest))]
             /\ m' = next_candidate(
                        [m EXCEPT !.premerge_sha = head[cwd],
                                  !.merged_pulls = Append(@, pullrequest)])
             /\ UNCHANGED << pc, exc, dirty >>
          \/ /\ pullrequest.number \in conflicts
             /\ trace' = trace \o
                    << Event("rev_parse", cwd, pullrequest.number, "", TRUE),
                       Event("merge", cwd, pullrequest.number, "", FALSE) >>
             /\ dirty' = [dirty EXCEPT ![cwd] = TRUE]
             /\ m' = [m EXCEPT !.premerge_sha = head[cwd]]
             /\ pc' = "m_except"
             /\ UNCHANGED << exc, head >>
    /\ UNCHANGED << sandbox, contained, directories, revs, git, rb, token, conflicts, args, org, submods, origin_pulls,
                    candidate_pulls, cwd, remotes, stack, pending, comments >>

\* a comment whenever one was asked for
comment_asked(comment, tok) == comment

\* "if comment and get_token()"
may_comment(comment, tok) == comment /\ tok

\* GitRepository.merge, the except clause: reset to premerge_sha, record
\* the conflict, comment on the issue when asked to and a token is found
MergeExcept ==
    /\ pc = "m_except"
    /\ LET pullrequest == candidate_pulls[m.self][m.idx]
           number == pullrequest.number
           reset == Event("reset", cwd, number, "", TRUE)
           conflicting == record_conflict(m, pullrequest)
       IN
          \/ /\ Log(Event("reset", cwd, number, "", FALSE))
             /\ Raise("Exception", stack)
             /\ UNCHANGED << head, dirty, m, comments >>
          \/ /\ head' = [head EXCEPT ![cwd] = reset_hard(@, m.premerge_sha)]
             /\ dirty' = [dirty EXCEPT ![cwd] = FALSE]
             /\ IF may_comment(m.comment, token)
                THEN \/ /\ trace' = trace \o
                             << reset, Event("create_comment", m.self, number,
                                             "", TRUE) >>
                        /\ comments' = comments \cup {<< m.self, number >>}
                        /\ m' = after_conflict(conflicting)
                        /\ pc' = "m_loop"
                        /\ exc' = exc
                     \/ /\ trace' = trace \o
                             << reset, Event("create_comment", m.self, number,
                                             "", FALSE) >>
                        /\ m' = conflicting
                        /\ Raise("Exception", stack)
                        /\ UNCHANGED comments
                ELSE /\ Log(reset)
                     /\ m' = after_conflict(conflicting)
                     /\ pc' = "m_loop"
                     /\ UNCHANGED << exc, comments >>
    /\ UNCHANGED << sandbox, contained, directories, revs, git, rb, token, conflicts, args, org, submods, origin_pulls,
                    candidate_pulls, cwd, remotes, stack, pending >>

\* GitRepository.merge after the loop: "git submodule update"
MergeUpdate ==
    /\ pc = "m_loop"
    /\ m.idx > Len(candidate_pulls[m.self])
    /\ \/ /\ Log(Event("submodule_update", cwd, 0, "", TRUE))
          /\ pc' = m.ret
          /\ exc' = exc
       \/ /\ Log(Event("submodule_update", cwd, 0, "", FALSE))
          /\ Raise("Exception", stack)
    /\ UNCHANGED << sandbox, contained, directories, revs, git, rb, token, conflicts, args, org, submods, origin_pulls, candidate_pulls, cwd,
                    head, dirty, remotes, stack, m, pending, comments >>

\* the state of the process when a call of submodules ends
Exit(self, dir, ok) ==
    [ev |-> "return", repo |-> self, pr |-> 0, key |-> "", ok |-> ok,
     dir |-> dir]

\* GitRepository.submodules up to the loop: "git submodule foreach" lists
\* the submodules of the working directory, which is then remembered
EnterSubmodules(self, filters, info, comment, id) ==
    \/ /\ Log(Event("foreach", self, 0, "", FALSE))
       /\ Raise("Exception", stack)
       /\ UNCHANGED stack
    \/ /\ Log(Event("foreach", self, 0, "", TRUE))
       /\ stack' = Append(stack,
                      [self |-> self, filters |-> filters, info |-> info,
                       comment |-> comment, commit_id |-> id, cwd |-> cwd,
                       lines |-> submods[cwd], sub |-> NoDir])
       /\ pc' = "s_loop"
       /\ exc' = exc

\* Merge.merge: main_repo.submodules(filters, args.info, args.comment,
\* commit_id = commit_id(filters))
TopSubmodules ==
    /\ pc = "submodules"
    /\ EnterSubmodules(Main, Filters(args), args.info, args.comment,
                       commit_id(Filters(args)))
    /\ UNCHANGED << sandbox, contained, directories, revs, git, rb, token, conflicts, args, org, submods, origin_pulls, candidate_pulls, cwd,
                    head, dirty, remotes, m, pending, comments >>

\* the recursive call submodule_repo.submodules(info): its one argument is
\* bound to the first parameter, filters; the others take their defaults
SubRecurse ==
    /\ pc = "s_recurse"
    /\ EnterSubmodules(Top.sub, BoolValue(Top.info), FALSE, FALSE,
                       DefaultCommitId)
    /\ UNCHANGED << sandbox, contained, directories, revs, git, rb, token, conflicts, args, org, submods, origin_pulls, candidate_pulls, cwd,
                    head, dirty, remotes, m, pending, comments >>

\* a loop that takes the last path of the list
pop_last(lines) ==
    [directory |-> lines[Len(lines)],
     lines |-> SubSeq(lines, 1, Len(lines) - 1)]

\* lines.pop(0): the first path, and the list without it
pop_first(lines) == [directory |-> Head(lines), lines |-> Tail(lines)]

\* loop head: pop the next path and build its GitRepository, whose
\* get_status changes to the submodule's directory before any git call
SubNext ==
    /\ pc = "s_loop"
    /\ Top.lines # << >>
    /\ LET directory == pop_first(Top.lines).directory
           rest == pop_first(Top.lines).lines
       IN
          /\ cwd' = directory
          /\ \/ /\ stack' = SetTop([Top EXCEPT !.lines = rest,
                                                !.sub = directory])
                /\ candidate_pulls' =
                      [candidate_pulls EXCEPT ![directory] = << >>]
                /\ Log(Event("construct", directory, 0, "", TRUE))
                /\ pc' = "s_body"
                /\ exc' = exc
             \/ /\ stack' = SetTop([Top EXCEPT !.lines = rest,
                                                !.sub = NoDir])
                /\ Log(Event("construct", directory, 0, "", FALSE))
                /\ Raise("Exception", stack)
                /\ UNCHANGED candidate_pulls
    /\ UNCHANGED << sandbox, contained, directories, revs, git, rb, token, conflicts, args, org, submods, origin_pulls, head, dirty, remotes,
                    m, pending, comments >>

\* "git merge --ff-only origin/<base>": the status of git is not read
fast_forward_raises(rc) == FALSE

\* the first statement of the try: submodule_repo.info(), which is the
\* logger's info method since __init__ assigned it, called without a
\* message; else fast_forward(filters["base"])
SubBody ==
    /\ pc = "s_body"
    /\ IF Top.info \/ ~Top.filters.dict
       THEN /\ Raise("TypeError", stack)
            /\ UNCHANGED << head, trace >>
       ELSE \E outcome \in {"advance", "error"} :
              /\ head' = [head EXCEPT ![cwd] =
                            IF outcome = "advance"
                            THEN Append(@, ForwardCommit) ELSE @]
              /\ Log(Event("fast_forward", Top.sub, 0, "", outcome # "error"))
              /\ IF outcome = "error" /\ fast_forward_raises(outcome)
                 THEN Raise("Exception", stack)
                 ELSE pc' = "s_find" /\ exc' = exc
    /\ UNCHANGED << sandbox, contained, directories, revs, git, rb, token, conflicts, args, org, submods, origin_pulls, candidate_pulls, cwd,
                    dirty, remotes, stack, m, pending, comments >>

\* submodule_repo.find_candidates(filters); submodule_repo.merge(comment)
SubFind ==
    /\ pc = "s_find"
    /\ FindStep(Top.sub, Top.filters,
                EnterMerge(Top.sub, Top.comment, DefaultCommitId, "s_recurse"))
    /\ UNCHANGED << sandbox, contained, revs, git, rb, token, conflicts, args, org, submods, origin_pulls, cwd, head, dirty,
                    remotes, stack, comments >>

\* a cleanup that is skipped when an exception is in flight
cleanup_unless_raised(self) ==
    IF exc = "none" THEN remote_keys(candidate_pulls[self]) ELSE << >>

\* GitRepository.cleanup: the keys of self.remotes() it visits
cleanup_keys(self) == remote_keys(candidate_pulls[self])

\* the outer finally of the loop body: cleanup of the submodule's
\* repository if it was built
SubCleanup ==
    /\ pc = "s_cleanup"
    /\ IF Top.sub = NoDir
       THEN pc' = "s_cd" /\ pending' = << >>
       ELSE pc' = "s_rm" /\ pending' = cleanup_keys(Top.sub)
    /\ UNCHANGED << sandbox, contained, directories, revs, git, rb, token, conflicts, args, org, submods, origin_pulls, candidate_pulls, cwd,
                    head, dirty, remotes, stack, exc, m, comments, trace >>

\* a loop body that changes back only when the submodule was processed
\* without an exception
restore_unless_raised(frame) == IF exc = "none" THEN frame.cwd ELSE cwd

\* the directory the inner finally of the loop body changes to
restore_cwd(frame) == frame.cwd

\* a loop that goes on to the next path whatever happened
swallowed(e) == FALSE

\* a finally clause ends by raising the exception in flight again
propagates(e) == e # "none"

\* the inner finally: self.cd(cwd); then the next path, or the exception
\* in flight leaves the call
SubCd ==
    /\ pc = "s_cd"
    /\ cwd' = restore_cwd(Top)
    /\ IF ~propagates(exc)
       THEN /\ pc' = "s_loop"
            /\ UNCHANGED << stack, trace >>
       ELSE /\ stack' = Pop(stack)
            /\ pc' = Handler(Pop(stack))
            /\ trace' = Append(trace, Exit(Top.self, cwd', FALSE))
    /\ UNCHANGED << sandbox, contained, directories, revs, git, rb, token, conflicts, args, org, submods, origin_pulls, candidate_pulls, head,
                    dirty, remotes, exc, m, pending, comments >>

\* has the history of a submodule registered in directory dir moved?
pointers_changed(dir) == \E sub \in Range(submods[dir]) : head[sub] # << >>

\* a commit that is made only when there is something to commit
commit_changes(h, commit, changed) ==
    IF changed THEN Append(h, commit) ELSE h

\* a commit that is put under the history
commit_first(h, commit, changed) == << commit >> \o h

\* "git commit --allow-empty -a -n": a commit whatever has changed
commit_allow_empty(h, commit, changed) == Append(h, commit)

\* after the loop: "git commit --allow-empty -a -n -m <commit_id>: Update
\* all modules w/o hooks", then the call returns
SubCommit ==
    /\ pc = "s_loop"
    /\ Top.lines = << >>
    /\ stack' = Pop(stack)
    /\ \/ /\ head' = [head EXCEPT ![cwd] =
                         commit_allow_empty(@, UpdateCommit(Top.commit_id),
                                            pointers_changed(cwd))]
          /\ trace' = trace \o << Event("commit", Top.self, 0, "", TRUE),
                                  Exit(Top.self, cwd, TRUE) >>
          /\ pc' = IF Pop(stack) = << >> THEN "push" ELSE "s_cleanup"
          /\ exc' = exc
       \/ /\ trace' = trace \o << Event("commit", Top.self, 0, "", FALSE),
                                  Exit(Top.self, cwd, FALSE) >>
          /\ Raise("Exception", Pop(stack))
          /\ UNCHANGED head
    /\ UNCHANGED << sandbox, contained, directories, revs, git, rb, token, conflicts, args, org, submods, origin_pulls, candidate_pulls, cwd,
                    dirty, remotes, m, pending, comments >>

\* Merge.merge, the end: with --buildnumber the attribute
\* args.build_number does not exist
MergePush ==
    /\ pc = "push"
    /\ pc' = "finally"
    /\ \E buildnumber \in BOOLEAN :
          exc' = IF buildnumber THEN "AttributeError" ELSE exc
    /\ UNCHANGED << sandbox, contained, directories, revs, git, rb, token, conflicts, args, org, submods, origin_pulls, candidate_pulls, cwd,
                    head, dirty, remotes, stack, m, pending, comments, trace >>

\* Merge.__call__, the finally: main_repo.cleanup()
MainFinally ==
    /\ pc = "finally"
    /\ pc' = "top_rm"
    /\ pending' = cleanup_keys(Main)
    /\ UNCHANGED << sandbox, contained, directories, revs, git, rb, token, conflicts, args, org, submods, origin_pulls, candidate_pulls, cwd,
                    head, dirty, remotes, stack, exc, m, comments, trace >>

\* "git remote rm <key>" in the working directory: fails when no such
\* remote is registered
remote_rm(registered, key) == registered \ {key}

\* a failure of "git remote rm" that becomes the exception in flight
cleanup_raises(e, ok) == IF ok THEN e ELSE "Exception"

\* "except Exception: self.log.error(...)": the exception in flight after
\* one turn of the loop of cleanup is the one there was before it
cleanup_exc(e, ok) == e

\* GitRepository.cleanup, loop body: a failure of git is logged and the
\* loop goes on
CleanupStep ==
    /\ pc \in {"s_rm", "top_rm"}
    /\ pending # << >>
    /\ LET key == Head(pending) IN
          /\ pending' = Tail(pending)
          /\ IF key \in remotes[cwd]
             THEN /\ remotes' = [remotes EXCEPT ![cwd] = remote_rm(@, key)]
                  /\ Log(Event("remote_rm", cwd, 0, key, TRUE))
                  /\ exc' = cleanup_exc(exc, TRUE)
             ELSE /\ Log(Event("remote_rm", cwd, 0, key, FALSE))
                  /\ exc' = cleanup_exc(exc, FALSE)
                  /\ UNCHANGED remotes
    /\ UNCHANGED << sandbox, contained, directories, revs, git, rb, token, conflicts, pc, args, org, submods, origin_pulls,
                    candidate_pulls, cwd, head, dirty, stack, m,
                    comments >>

\* GitRepository.cleanup returns: to the inner finally of the loop body,
\* or out of Merge.__call__ with the exception in flight, if any
CleanupDone ==
    /\ pc \in {"s_rm", "top_rm"}
    /\ pending = << >>
    /\ pc' = IF pc = "s_rm" THEN "s_cd"
             ELSE IF exc = "none" THEN "done" ELSE "failed"
    /\ UNCHANGED << sandbox, contained, directories, revs, git, rb, token, conflicts, args, org, submods, origin_pulls, candidate_pulls, cwd,
                    head, dirty, remotes, stack, exc, m, pending, comments, trace >>

Next ==
    \/ MainConstruct
    \/ MainFind
    \/ MergeAddRemote
    \/ MergeRemotesDone
    \/ MergeAttempt
    \/ MergeExcept
    \/ MergeUpdate
    \/ TopSubmodules
    \/ SubNext
    \/ SubBody
    \/ SubFind
    \/ SubRecurse
    \/ SubCleanup
    \/ SubCd
    \/ SubCommit
    \/ MergePush
    \/ MainFinally
    \/ CleanupStep
    \/ CleanupDone

Spec == Init /\ [][Next]_vars

(***************************************************************************)
(* Merge runs in a repository without submodules, where the branch may     *)
(* have the head of a pull already.                                        *)
(***************************************************************************)
PlainInit ==
    /\ pc = "start"
    /\ args \in MergeArgs
    /\ org = [present |-> TRUE, members |-> {"alice"}]
    /\ \E pulls \in RepoPullLists(MaxPulls) :
          /\ origin_pulls = [r \in Repos |-> pulls]
          /\ conflicts \in SUBSET { pulls[i].number : i \in DOMAIN pulls }
          /\ contained \in
                SUBSET ({ pulls[i].number : i \in DOMAIN pulls } \ conflicts)
    /\ submods = Tree(0, {})
    /\ candidate_pulls = [r \in Repos |-> << >>]
    /\ cwd = Main
    /\ head = [r \in Repos |-> << >>]
    /\ dirty = [r \in Repos |-> FALSE]
    /\ remotes = [r \in Repos |-> {}]
    /\ stack = << >>
    /\ exc = "none"
    /\ m = IdleMerge
    /\ pending = << >>
    /\ comments = {}
    /\ token \in BOOLEAN
    /\ trace = << >>
    /\ revs = NoRevs
    /\ git = NoGit
    /\ rb = NoRebase
    /\ directories = [r \in Repos |-> NoFile]
    /\ sandbox = NoSandbox

PlainNext ==
    \/ MainConstruct
    \/ MainFind
    \/ MergeAddRemote
    \/ MergeRemotesDone
    \/ MergeAttempt
    \/ MergeExcept
    \/ MergeUpdate
    \/ TopSubmodules
    \/ SubCommit
    \/ MergePush
    \/ MainFinally
    \/ CleanupStep
    \/ CleanupDone

PlainSpec == PlainInit /\ [][PlainNext]_vars

(***************************************************************************)
(* Rebase runs: Rebase.__call__ in a clone of the repository, once and     *)
(* once again.                                                             *)
(***************************************************************************)
RemoteNames == {"origin", "gh"}

\* the histories the branch rebased/<newbase>/<head ref> may have on the
\* user's fork before the run: none, an ancestor of every other, another
ForkHistories == { << >>, << 1 >>, << 8, 1 >> }

\* a clone with one remote, and the pull request on the hosting service
Clone(name, exists, k, related, kind, local, fork, detached) ==
    [remotes |-> {name},
     pull |-> [exists |-> exists, head |-> PullHead(k, related),
               head_ref |-> "topic", base_ref |-> "dev_4_4"],
     base |-> BaseHistory,
     newbase |-> NewBaseHistory(kind, PullHead(k, related)),
     head |-> [ref |-> IF detached THEN "detached" ELSE "master",
               history |-> MasterHistory],
     local |-> IF local THEN MasterHistory ELSE << >>,
     fork |-> fork,
     pulls |-> {},
     rebasing |-> FALSE]

Clones ==
    { Clone(name, exists, k, related, kind, local, fork, detached) :
        name \in RemoteNames, exists \in BOOLEAN, k \in 0 .. MaxOwn,
        related \in BOOLEAN, kind \in NewBaseKinds, local \in BOOLEAN,
        fork \in ForkHistories, detached \in BOOLEAN }

\* the command line: --remote, --no-push, --no-pr, --no-delete; the pull
\* request and the new base are those of the clone
RebaseArgs ==
    { [NoRebase EXCEPT !.remote = r, !.push = p, !.pr = q, !.delete = d] :
        r \in RemoteNames, p \in BOOLEAN, q \in BOOLEAN, d \in BOOLEAN }

\* "rebased/%s/%s" % (args.newbase, pr.head.ref)
new_branch(newbase, head_ref) == << "rebased", newbase, head_ref >>

\* "%s/%s" % (args.remote, branch)
remote_branch(remote, branch) == << remote, branch >>

\* the variables of the merge, selection and branch point runs
others ==
    << args, org, submods, origin_pulls, candidate_pulls, cwd, head, dirty,
       remotes, stack, m, pending, comments, token, conflicts, revs,
       directories, contained, sandbox >>

RebaseInit ==
    /\ pc = "r_start"
    /\ git \in Clones
    /\ \E a \in RebaseArgs : rb = [a EXCEPT !.initial = git]
    /\ args = NoArgs
    /\ org = NoOrg
    /\ origin_pulls = [r \in Repos |-> << >>]
    /\ submods = [r \in Repos |-> << >>]
    /\ candidate_pulls = [r \in Repos |-> << >>]
    /\ cwd = Main
    /\ head = [r \in Repos |-> << >>]
    /\ dirty = [r \in Repos |-> FALSE]
    /\ remotes = [r \in Repos |-> {}]
    /\ stack = << >>
    /\ exc = "none"
    /\ m = IdleMerge
    /\ pending = << >>
    /\ comments = {}
    /\ token = FALSE
    /\ conflicts = {}
    /\ trace = << >>
    /\ revs = NoRevs
    /\ directories = [r \in Repos |-> NoFile]
    /\ contained = {}
    /\ sandbox = NoSandbox

\* a call of the run failed: the exception goes to the finally of
\* Rebase.__call__
RebaseRaise(ev, cause) ==
    /\ Log(Event(ev, Main, 0, cause, FALSE))
    /\ exc' = "Exception"
    /\ pc' = "r_cleanup"

\* GitRepository.__init__ of the clone, before the try: get_status, then
\* get_remote_info("origin") whatever --remote names
RebaseConstruct ==
    /\ pc = "r_start"
    /\ \/ /\ "origin" \notin git.remotes
          /\ Log(Event("construct", Main, 0, "remote", FALSE))
          /\ exc' = "Exception"
          /\ pc' = "r_failed"
       \/ /\ Log(Event("construct", Main, 0, "fault", FALSE))
          /\ exc' = "Exception"
          /\ pc' = "r_failed"
       \/ /\ "origin" \in git.remotes
          /\ Log(Event("construct", Main, 0, "", TRUE))
          /\ exc' = exc
          /\ pc' = "r_local"
    /\ UNCHANGED << git, rb >>
    /\ UNCHANGED others

\* Rebase.rebase, local information: get_remote_info(args.remote), then the
\* branch checked out, or the commit when HEAD is detached
RebaseLocal ==
    /\ pc = "r_local"
    /\ \/ /\ rb.remote \notin git.remotes
          /\ RebaseRaise("get_remote_info", "remote")
          /\ UNCHANGED rb
       \/ /\ RebaseRaise("get_current_sha1", "fault")
          /\ UNCHANGED rb
       \/ /\ rb.remote \in git.remotes
          /\ Log(Event("get_current_head", Main, 0,
                       IF git.head.ref = "detached" THEN "detached" ELSE "",
                       git.head.ref # "detached"))
          /\ rb' = [rb EXCEPT !.old_branch = git.head]
          /\ exc' = exc
          /\ pc' = "r_pull"
    /\ UNCHANGED git
    /\ UNCHANGED others

\* Rebase.rebase, remote information: main_repo.origin.get_pull(args.PR)
RebasePull ==
    /\ pc = "r_pull"
    /\ \/ /\ ~git.pull.exists
          /\ RebaseRaise("get_pull", "unknown")
          /\ UNCHANGED rb
       \/ /\ RebaseRaise("get_pull", "fault")
          /\ UNCHANGED rb
       \/ /\ git.pull.exists
          /\ Log(Event("get_pull", Main, 0, "", TRUE))
          /\ rb' = [rb EXCEPT !.pr_head = git.pull.head]
          /\ exc' = exc
          /\ pc' = "r_branch"
    /\ UNCHANGED git
    /\ UNCHANGED others

\* a search of the branch point on the new base
new_base(clone) == clone.newbase

\* the branch the branch point is looked for on: the one the pull request
\* is opened against
branch_point_base(clone) == clone.base

\* find_branching_point(pr_head, "<remote>/<pr.base.ref>"); the head of the
\* pull request may be no object of the clone, which is never fetched
RebaseBranchPoint ==
    /\ pc = "r_branch"
    /\ \E topic_revlist \in {RevList(rb.pr_head), RevListFailed},
          main_revlist \in {RevList(branch_point_base(git)), RevListFailed} :
          LET r == find_branching_point(topic_revlist, main_revlist) IN
              /\ Log(Event("find_branching_point", Main, 0, r.msg,
                           r.exc = "none"))
              /\ exc' = r.exc
              /\ rb' = [rb EXCEPT !.branching_sha1 = r.sha1, !.msg = r.msg]
              /\ pc' = IF r.exc = "none" THEN "r_rebase" ELSE "r_cleanup"
    /\ UNCHANGED git
    /\ UNCHANGED others

\* main_repo.rebase("<remote>/<newbase>", branching_sha1[0:6], pr_head):
\* git refuses to start, stops at a conflict, or leaves HEAD detached on
\* the rebased commits
RebaseOnto ==
    /\ pc = "r_rebase"
    /\ LET onto == remote_branch(rb.remote, "develop")
           upstream == abbreviated(rb.branching_sha1)
           result == rebase_onto(git.newbase, upstream, rb.pr_head)
           called == [rb EXCEPT !.onto = onto, !.upstream = upstream]
       IN
          \/ /\ RebaseRaise("rebase", "fault")
             /\ rb' = called
             /\ UNCHANGED git
          \/ /\ result # git.newbase
             /\ RebaseRaise("rebase", "conflict")
             /\ rb' = called
             /\ git' = [git EXCEPT !.head = [ref |-> "detached",
                                             history |-> git.newbase],
                                   !.rebasing = TRUE]
          \/ /\ Log(Event("rebase", Main, 0, "", TRUE))
             /\ rb' = [called EXCEPT !.rebased = result]
             /\ git' = [git EXCEPT !.head = [ref |-> "detached",
                                             history |-> result]]
             /\ exc' = exc
             /\ pc' = "r_new"
    /\ UNCHANGED others

\* a workflow that goes through the push whatever the options
always_remote(r) == TRUE

\* if args.push or args.pr
goes_remote(r) == r.push \/ r.pr

\* main_repo.new_branch(new_branch): "git checkout -b <new_branch> HEAD"
RebaseNewBranch ==
    /\ pc = "r_new"
    /\ \/ /\ git.local # << >>
          /\ RebaseRaise("new_branch", "exists")
          /\ UNCHANGED git
       \/ /\ RebaseRaise("new_branch", "fault")
          /\ UNCHANGED git
       \/ /\ git.local = << >>
          /\ Log(Event("new_branch", Main, 0, "", TRUE))
          /\ git' = [git EXCEPT !.local = git.head.history,
                                !.head.ref = "new"]
          /\ exc' = exc
          /\ pc' = IF goes_remote(rb) THEN "r_push" ELSE "r_cleanup"
    /\ UNCHANGED rb
    /\ UNCHANGED others

\* an exception inside the try of Rebase.rebase goes to its finally
RebaseTryRaise(ev, cause) ==
    /\ Log(Event(ev, Main, 0, cause, FALSE))
    /\ exc' = "Exception"
    /\ pc' = "r_checkout"

\* the try of Rebase.rebase: get_login, then push_branch(new_branch) to the
\* user's fork, which refuses a push that is no fast-forward
RebasePush ==
    /\ pc = "r_push"
    /\ \/ /\ RebaseTryRaise("push_branch", "fault")
          /\ UNCHANGED git
       \/ /\ ~IsAncestor(git.fork, git.local)
          /\ RebaseTryRaise("push_branch", "exists")
          /\ UNCHANGED git
       \/ /\ IsAncestor(git.fork, git.local)
          /\ Log(Event("push_branch", Main, 0, "", TRUE))
          /\ git' = [git EXCEPT !.fork = git.local]
          /\ exc' = exc
          /\ pc' = IF rb.pr THEN "r_pr" ELSE "r_checkout"
    /\ UNCHANGED rb
    /\ UNCHANGED others

\* the pull request open_pr asks for: head "<user>:<new_branch>", base
\* args.newbase
rebased_pull(newbase, head_ref) ==
    [head |-> << "user", new_branch(newbase, head_ref) >>, base |-> newbase]

\* if args.pr: gh_repo.open_pr(...), which the hosting service refuses
\* when the head has no commit the base lacks or the same pull request is
\* open; then the reload of the new pull request
RebaseOpenPr ==
    /\ pc = "r_pr"
    /\ LET pull == rebased_pull("develop", git.pull.head_ref) IN
          \/ /\ RebaseTryRaise("open_pr", "fault")
             /\ UNCHANGED git
          \/ /\ Range(git.fork) \subseteq Range(git.newbase) \/ pull \in git.pulls
             /\ RebaseTryRaise("open_pr", "refused")
             /\ UNCHANGED git
          \/ /\ ~(Range(git.fork) \subseteq Range(git.newbase))
             /\ pull \notin git.pulls
             /\ git' = [git EXCEPT !.pulls = @ \cup {pull}]
             /\ \/ /\ trace' = trace \o
                         << Event("open_pr", Main, 0, "", TRUE),
                            Event("get_pull", Main, 0, "", TRUE) >>
                   /\ exc' = exc
                   /\ pc' = "r_checkout"
                \/ /\ trace' = trace \o
                         << Event("open_pr", Main, 0, "", TRUE),
                            Event("get_pull", Main, 0, "fault", FALSE) >>
                   /\ exc' = "Exception"
                   /\ pc' = "r_checkout"
    /\ UNCHANGED rb
    /\ UNCHANGED others

\* "git checkout <old_branch>": HEAD after it
checkout_branch(clone, old_branch) == old_branch

\* a run that keeps the new branch whatever it is told
keeps(r) == FALSE

\* "if args.delete:"
deletes(r) == r.delete

\* the finally of the try: main_repo.checkout_branch(old_branch); then, if
\* nothing was raised, the deletion of the new branch or the return
RebaseCheckout ==
    /\ pc = "r_checkout"
    /\ \/ /\ Log(Event("checkout_branch", Main, 0, "fault", FALSE))
          /\ exc' = "Exception"
          /\ pc' = "r_cleanup"
          /\ UNCHANGED git
       \/ /\ Log(Event("checkout_branch", Main, 0, "", TRUE))
          /\ git' = [git EXCEPT !.head = checkout_branch(git, rb.old_branch)]
          /\ exc' = exc
          /\ pc' = IF exc = "none" /\ deletes(rb) THEN "r_delete"
                   ELSE "r_cleanup"
    /\ UNCHANGED rb
    /\ UNCHANGED others

\* if args.delete: main_repo.delete_local_branch(new_branch, force=True)
RebaseDelete ==
    /\ pc = "r_delete"
    /\ \/ /\ RebaseRaise("delete_local_branch", "fault")
          /\ UNCHANGED git
       \/ /\ Log(Event("delete_local_branch", Main, 0, "", TRUE))
          /\ git' = [git EXCEPT !.local = << >>]
          /\ exc' = exc
          /\ pc' = "r_cleanup"
    /\ UNCHANGED rb
    /\ UNCHANGED others

\* the finally of Rebase.__call__: main_repo.cleanup(), which finds no
\* candidate and so no remote to remove
RebaseCleanup ==
    /\ pc = "r_cleanup"
    /\ cleanup_keys(Main) = << >>
    /\ pc' = IF exc = "none" THEN "r_done" ELSE "r_failed"
    /\ UNCHANGED << exc, trace, git, rb >>
    /\ UNCHANGED others

\* the same command is run once again in the clone as the run left it
RebaseAgain ==
    /\ pc = "r_done"
    /\ ~rb.again
    /\ pc' = "r_start"
    /\ trace' = << >>
    /\ \E a \in RebaseArgs :
          /\ a.remote = rb.remote /\ a.push = rb.push
          /\ a.pr = rb.pr /\ a.delete = rb.delete
          /\ rb' = [a EXCEPT !.again = TRUE, !.initial = git]
    /\ UNCHANGED << exc, git >>
    /\ UNCHANGED others

RebaseNext ==
    \/ RebaseConstruct
    \/ RebaseLocal
    \/ RebasePull
    \/ RebaseBranchPoint
    \/ RebaseOnto
    \/ RebaseNewBranch
    \/ RebasePush
    \/ RebaseOpenPr
    \/ RebaseCheckout
    \/ RebaseDelete
    \/ RebaseCleanup
    \/ RebaseAgain

RebaseSpec == RebaseInit /\ [][RebaseNext]_vars

(***************************************************************************)
(* Clean-sandbox runs: CleanSandbox.__call__ on a fork of snoopys-sandbox, *)
(* over every set of branches of the fork, every order in which the        *)
(* hosting service lists them and every command line the parser accepts.   *)
(***************************************************************************)
BranchNames == {"master", "develop", "topic"}

\* the names --skip may be given, in the order of the command line
SkipOptions ==
    { << >>, << "develop" >>, << "Master" >>, << "topic", "develop" >> }

\* action="append" with default=["master"]: the names given are appended
\* to the default
skip_replaces(given) == IF given = << >> THEN << "master" >> ELSE given
skip_append(given) == << "master" >> \o given

\* -f and -n are a required, mutually exclusive group
SandboxArgs ==
    { [force |-> f, dry_run |-> ~f, skip |-> skip_append(given)] :
        f \in BOOLEAN, given \in SkipOptions }

\* the orders in which the branches of a set can be listed
Enumerations(S) ==
    { e \in [1 .. Cardinality(S) -> S] : Range(e) = S }

\* ":%s" % b.name, the refspec of source and destination
refspec(name) == [src |-> "", dst |-> name]

\* git push <repo> <src>:<dst> on the branches of the repository: without
\* a source the destination is deleted
git_push(branches, spec) ==
    IF spec.src = "" THEN branches \ {spec.dst}
                     ELSE branches \cup {spec.dst}

CleanInit ==
    /\ pc = "c_start"
    /\ args = NoArgs
    /\ org = NoOrg
    /\ origin_pulls = [r \in Repos |-> << >>]
    /\ submods = [r \in Repos |-> << >>]
    /\ candidate_pulls = [r \in Repos |-> << >>]
    /\ cwd = Main
    /\ head = [r \in Repos |-> << >>]
    /\ dirty = [r \in Repos |-> FALSE]
    /\ remotes = [r \in Repos |-> {}]
    /\ stack = << >>
    /\ exc = "none"
    /\ m = IdleMerge
    /\ pending = << >>
    /\ comments = {}
    /\ token = FALSE
    /\ conflicts = {}
    /\ trace = << >>
    /\ revs = NoRevs
    /\ git = NoGit
    /\ rb = NoRebase
    /\ directories = [r \in Repos |-> NoFile]
    /\ contained = {}
    /\ \E a \in SandboxArgs, fork \in SUBSET BranchNames :
          sandbox = [force |-> a.force, dry_run |-> a.dry_run,
                     skip |-> a.skip, fork |-> fork, initial |-> fork,
                     branches |-> << >>, idx |-> 1, printed |-> << >>]

quiet ==
    << args, org, submods, origin_pulls, candidate_pulls, cwd, head, dirty,
       remotes, stack, m, pending, comments, token, conflicts, revs, git, rb,
       directories, contained >>

\* login, gh_repo("snoopys-sandbox") and get_branches(): the fork is found
\* and its branches are listed in some order, or the call raises
CleanBranches ==
    /\ pc = "c_start"
    /\ \/ /\ \E e \in Enumerations(sandbox.fork) :
                sandbox' = [sandbox EXCEPT !.branches = e]
          /\ Log(Event("get_branches", Main, 0, "", TRUE))
          /\ pc' = "c_loop"
          /\ UNCHANGED exc
       \/ /\ Log(Event("get_branches", Main, 0, "", FALSE))
          /\ exc' = "Exception"
          /\ pc' = "c_failed"
          /\ UNCHANGED sandbox
    /\ UNCHANGED quiet

\* one turn of the loop over the branches
CleanBranch ==
    /\ pc = "c_loop"
    /\ sandbox.idx <= Len(sandbox.branches)
    /\ LET name == sandbox.branches[sandbox.idx]
           next == [sandbox EXCEPT !.idx = @ + 1]
       IN
         IF name \in Range(sandbox.skip)
         THEN /\ sandbox' =
                    IF sandbox.dry_run
                    THEN [next EXCEPT !.printed =
                            Append(@, << "Would not delete", name >>)]
                    ELSE next
              /\ UNCHANGED << pc, exc, trace >>
         ELSE IF sandbox.dry_run
         THEN /\ sandbox' = [next EXCEPT !.printed =
                                Append(@, << "Would delete", name >>)]
              /\ UNCHANGED << pc, exc, trace >>
         ELSE IF sandbox.force
         THEN \/ /\ sandbox' =
                       [next EXCEPT !.fork = git_push(@, refspec(name))]
                 /\ Log(Event("push", Main, 0, name, TRUE))
                 /\ UNCHANGED << pc, exc >>
              \/ /\ Log(Event("push", Main, 0, name, FALSE))
                 /\ exc' = "Exception"
                 /\ pc' = "c_failed"
                 /\ UNCHANGED sandbox
         ELSE /\ exc' = "Exception"
              /\ pc' = "c_failed"
              /\ UNCHANGED << sandbox, trace >>
    /\ UNCHANGED quiet

\* the loop has visited every branch
CleanDone ==
    /\ pc = "c_loop"
    /\ sandbox.idx > Len(sandbox.branches)
    /\ pc' = "c_done"
    /\ UNCHANGED << exc, trace, sandbox >>
    /\ UNCHANGED quiet

CleanNext == CleanBranches \/ CleanBranch \/ CleanDone

CleanSpec == CleanInit /\ [][CleanNext]_vars

(***************************************************************************)
(* Properties.                                                             *)
(***************************************************************************)
\* labels that are equal when case is ignored
CaseClasses ==
    { {"include", "Include", "INCLUDE"}, {"exclude", "Exclude", "EXCLUDE"} }

SameIgnoringCase(a, b) ==
    a = b \/ \E c \in CaseClasses : a \in c /\ b \in c

Numbers(pulls) == [i \in DOMAIN pulls |-> pulls[i].number]

Count(pulls, p) == Cardinality({ i \in DOMAIN pulls : pulls[i] = p })

\* the pulls whose merge was attempted in repository r, in order
Attempted(r) ==
    LET merges == SelectSeq(trace, LAMBDA e : e.ev = "merge" /\ e.repo = r)
    IN  [i \in DOMAIN merges |-> merges[i].pr]

\* merge has returned to its caller, its locals still in m
Returned == pc = m.ret

\* the last candidate the loop of merge dealt with was a conflict
LastConflicted ==
    /\ m.idx > 1
    /\ m.conflicting_pulls # << >>
    /\ m.conflicting_pulls[Len(m.conflicting_pulls)] =
          candidate_pulls[m.self][m.idx - 1]

\* C1: a pull that carries a label equal, ignoring case, to a label of the
\* exclude filter is never a candidate, whoever its author is and whatever
\* other labels it carries
C1_ExclusionWins ==
    pc = "selected" =>
      \A p \in Range(origin_pulls[Main]) :
        (\E i \in DOMAIN args.exclude, l \in p.labels :
            SameIgnoringCase(args.exclude[i], l))
        => p \notin Range(candidate_pulls[Main])

\* a whitelisted author's pull with an include and an exclude label, both in
\* another case than the filter's, was left out while another was accepted
C1_Witness ==
    /\ pc = "selected"
    /\ args.include = <<"include">>
    /\ args.exclude = <<"EXCLUDE">>
    /\ candidate_pulls[Main] # << >>
    /\ \E p \in Range(origin_pulls[Main]) :
          /\ is_whitelisted(org, p.user)
          /\ p.base = args.base
          /\ p.labels = {"Include", "exclude"}
          /\ p \notin Range(candidate_pulls[Main])

\* C2: after find_candidates the candidates are in strictly ascending order
\* of their numbers, whatever the order of the listing
C2_Ascending ==
    pc = "selected" =>
      \A i, j \in DOMAIN candidate_pulls[Main] :
        i < j => candidate_pulls[Main][i].number < candidate_pulls[Main][j].number

\* two pulls listed in descending order were both accepted
C2_Witness ==
    /\ pc = "selected"
    /\ Len(origin_pulls[Main]) = 2
    /\ origin_pulls[Main][1].number > origin_pulls[Main][2].number
    /\ Len(candidate_pulls[Main]) = 2

\* C3: after a failed merge attempt, and before the next candidate is
\* attempted, HEAD is the commit recorded before the attempt and nothing of
\* the failed merge is left in the tree
C3_RollbackExact ==
    (pc = "m_loop" /\ LastConflicted) =>
      /\ head[cwd] = m.premerge_sha
      /\ ~dirty[cwd]
      /\ Len(head[cwd]) = Len(m.merged_pulls)
                           + Cardinality({ i \in DOMAIN head[cwd] :
                                             head[cwd][i].kind = "ff" })

\* a conflict was rolled back on top of an earlier merge commit of the run
C3_Witness ==
    /\ pc = "m_loop"
    /\ LastConflicted
    /\ m.merged_pulls # << >>
    /\ head[cwd] # << >>

\* C4: when merge returns, every candidate is in exactly one of
\* merged_pulls and conflicting_pulls
C4_Partition ==
    Returned =>
      /\ \A p \in Range(candidate_pulls[m.self]) :
            Count(m.merged_pulls, p) + Count(m.conflicting_pulls, p) = 1
      /\ Range(m.merged_pulls) \cup Range(m.conflicting_pulls)
            \subseteq Range(candidate_pulls[m.self])

\* merge returned with a merged and a conflicting candidate
C4_Witness ==
    /\ Returned
    /\ m.merged_pulls # << >>
    /\ m.conflicting_pulls # << >>

\* C5: a conflict does not end the loop of merge: the candidates are
\* attempted one after the other in their order, all of them when merge
\* returns, and an exception is in flight only after a call other than a
\* merge attempt failed
C5_ConflictNotFatal ==
    /\ pc = "m_loop" =>
          Attempted(m.self) =
            Numbers(SubSeq(candidate_pulls[m.self], 1, m.idx - 1))
    /\ Returned => Attempted(m.self) = Numbers(candidate_pulls[m.self])
    /\ exc = "Exception" =>
          \E i \in DOMAIN trace :
            /\ ~trace[i].ok
            /\ trace[i].ev \notin {"merge", "fast_forward", "remote_rm"}

\* a run completed in which the first candidate conflicted and was
\* commented on, and the second was attempted after it
C5_Witness ==
    /\ pc = "done"
    /\ << Main, 1 >> \in comments
    /\ Attempted(Main) = << 1, 2 >>

C7_CwdRestored ==
    \A j \in DOMAIN trace :
      trace[j].ev = "return" =>
        \E i \in 1..(j - 1) :
          /\ trace[i].ev = "foreach"
          /\ trace[i].ok
          /\ trace[i].repo = trace[j].repo
          /\ trace[i].dir = trace[j].dir

\* the call on the top-level repository was left by an exception raised
\* while the working directory was a submodule's
C7_Witness ==
    \E j \in DOMAIN trace :
      /\ trace[j].ev = "return"
      /\ ~trace[j].ok
      /\ trace[j].repo = Main
      /\ \E i \in 1..(j - 1) : trace[i].ev = "fetch" /\ trace[i].dir # Main

\* C8: every call of submodules, at every depth, has the filters of the run
C8_SameFilters ==
    \A i \in DOMAIN stack : stack[i].filters = Filters(args)

\* C9: when a call of the run returned an error status, other than a merge
\* attempt (and leaving aside the removals of the cleanup itself), the run
\* ends with an exception; and it ends with the remotes removed and in the
\* directory it started in
C9_ErrorsAbort ==
    pc \in {"done", "failed"} =>
      /\ (\E i \in DOMAIN trace :
              ~trace[i].ok /\ trace[i].ev \notin {"merge", "remote_rm"})
            => pc = "failed"
      /\ \A r \in Repos : remotes[r] = {}
      /\ cwd = Main

TopicLines == revs.topic.lines

MainLines == revs.main.lines

CommonStarts ==
    { st \in (0 .. (Len(TopicLines) - 1)) \X (0 .. (Len(MainLines) - 1)) :
        TopicLines[st[1] + 1] = MainLines[st[2] + 1] }

RunAt(st) ==
    RunLength(TopicLines, MainLines, st[1], st[2], Len(TopicLines),
              Len(MainLines))

LongestRuns == { st \in CommonStarts : \A o \in CommonStarts : RunAt(o) <= RunAt(st) }

\* a commit common to both histories is followed by the same commits in
\* both, as in two first-parent histories of one repository
Chains ==
    \A st \in CommonStarts :
        SubSeq(TopicLines, st[1] + 1, Len(TopicLines))
            = SubSeq(MainLines, st[2] + 1, Len(MainLines))

C12_InBothOrFails ==
    /\ pc = "found" =>
          /\ exc = "none"
          /\ revs.sha1 \in Range(TopicLines) \cap Range(MainLines)
    /\ pc = "failed" => exc # "none"
    /\ (pc \in {"found", "failed"}
          /\ (~revs.topic.ok \/ ~revs.main.ok
                \/ Range(TopicLines) \cap Range(MainLines) = {}))
          => pc = "failed"

\* a commit was returned that is at different offsets of two histories
\* which both have commits of their own
C12_Witness ==
    /\ pc = "found"
    /\ Range(TopicLines) \ Range(MainLines) # {}
    /\ Range(MainLines) \ Range(TopicLines) # {}
    /\ \E i \in DOMAIN TopicLines, j \in DOMAIN MainLines :
          i # j /\ TopicLines[i] = revs.sha1 /\ MainLines[j] = revs.sha1

\* a rebase run has ended
Finished == pc \in {"r_done", "r_failed"}

Called(ev) == \E i \in DOMAIN trace : trace[i].ev = ev

Succeeded(ev) == \E i \in DOMAIN trace : trace[i].ev = ev /\ trace[i].ok

\* no call of the run failed for another cause than these
OnlyFails(causes) ==
    \A i \in DOMAIN trace : ~trace[i].ok => trace[i].key \in causes

\* the histories of the pull request and of the branch it is opened against
\* share no commit
NoCommonCommit ==
    Range(rb.initial.pull.head) \cap Range(rb.initial.base) = {}

\* C13: when the histories share no commit, or the pull request does not
\* exist, the run ends with an exception, the one of find_branching_point
\* being "No matching block found", and nothing was rebased, no branch was
\* created, nothing was pushed and no pull request was opened
C13_NoCommonAborts ==
    (Finished /\ (~rb.initial.pull.exists \/ NoCommonCommit)) =>
      /\ pc = "r_failed"
      /\ git = rb.initial
      /\ ~Called("rebase") /\ ~Called("new_branch")
      /\ ~Called("push_branch") /\ ~Called("open_pr")
      /\ ~rb.initial.pull.exists => ~Called("find_branching_point")
      /\ \A i \in DOMAIN trace :
            trace[i].ev = "find_branching_point" =>
              /\ ~trace[i].ok
              /\ trace[i].key = NoMatchingBlock \/ exc = "TypeError"

\* a run with every remote effect enabled ended on the exception of
\* find_branching_point, both rev lists read
C13_Witness ==
    /\ pc = "r_failed"
    /\ rb.push /\ rb.pr
    /\ NoCommonCommit
    /\ exc = "Exception"
    /\ \E i \in DOMAIN trace :
          /\ trace[i].ev = "find_branching_point"
          /\ trace[i].key = NoMatchingBlock

\* a rebase was called in this run
RebaseCalled == rb.onto # << >>

\* the commits of the head of the pull request that are newer than commit c
NewerThan(h, c) ==
    SubSeq(h, 1, Len(h) - Len(Behind(h, c)))

\* C14 as stated: the rebase is given the branch point of the head of the
\* pull request and <remote>/<newbase>
C14_BranchPointOfNewBase ==
    RebaseCalled =>
      rb.upstream =
        abbreviated(find_branching_point(RevList(rb.pr_head),
                                         RevList(git.newbase)).sha1)

\* C14: the rebase is given <remote>/<newbase>, the branch point of the head
\* of the pull request and <remote>/<the branch the pull request is opened
\* against>, and the head; when it succeeds HEAD is the copies of the commits
\* newer than the branch point, those already on the new base left out, on
\* top of <remote>/<newbase>
C14_BranchPointOfBase ==
    RebaseCalled =>
      /\ rb.onto = << rb.remote, "develop" >>
      /\ rb.upstream =
           abbreviated(find_branching_point(RevList(rb.pr_head),
                                            RevList(git.base)).sha1)
      /\ rb.upstream.prefix \in Range(rb.pr_head) \cap Range(git.base)
      /\ rb.rebased # << >> =>
           LET newer == NewerThan(rb.pr_head, rb.upstream.prefix)
               kept == SelectSeq(newer, LAMBDA c : c \notin Range(git.newbase))
           IN  rb.rebased = [i \in DOMAIN kept |-> 100 + kept[i]] \o git.newbase

\* two commits were replayed on a new base that has diverged from the base
\* of the pull request
C14_Witness ==
    /\ pc = "r_new"
    /\ rb.pr_head = << 12, 11, 2, 1 >>
    /\ git.newbase = << 3, 1 >>
    /\ rb.upstream = abbreviated(2)
    /\ git.head.history = << 112, 111, 3, 1 >>

\* C15: when a run ends after the starting point was recorded, the branch
\* (or commit) checked out is the one of the start
C15_BackOnStart ==
    (Finished /\ rb.old_branch.ref # "") => git.head = rb.initial.head

\* C16: when the branch rebased/<newbase>/<head ref> exists in the clone or
\* on the fork before the run, and no call fails for another cause, the run
\* fails, no rebase was executed, HEAD did not move, no branch was created
\* and nothing was pushed
C16_ExistingBranchStops ==
    (/\ Finished
     /\ rb.initial.local # << >> \/ rb.initial.fork # << >>
     /\ OnlyFails({"exists", "detached"})) =>
      /\ pc = "r_failed"
      /\ ~Called("rebase")
      /\ git.head = rb.initial.head
      /\ git.local = rb.initial.local
      /\ git.fork = rb.initial.fork

\* the push came before the opening of the pull request
PushedBeforeOpened ==
    \A j \in DOMAIN trace :
      trace[j].ev = "open_pr" =>
        \E i \in 1 .. (j - 1) : trace[i].ev = "push_branch" /\ trace[i].ok

\* C17 as stated: after a successful run the branch was pushed if and only
\* if pushing is enabled, and the pull request was opened, after the push,
\* if and only if the creation of pull requests is enabled
C17_PushIffPushing ==
    pc = "r_done" =>
      /\ Succeeded("push_branch") <=> rb.push
      /\ Succeeded("open_pr") <=> rb.pr
      /\ PushedBeforeOpened

\* C17: after a successful run the branch was pushed to the fork if and
\* only if --no-push and --no-pr were not both given; the pull request
\* (head <user>:rebased/<newbase>/<head ref>, base newbase) was opened, after
\* the push, if and only if --no-pr was not given; with both nothing was
\* pushed or opened, and with --no-pr alone the branch is on the fork and
\* no pull request was opened
C17_RemoteEffects ==
    pc = "r_done" =>
      /\ Succeeded("push_branch") <=> (rb.push \/ rb.pr)
      /\ Succeeded("push_branch") => git.fork = rb.rebased
      /\ ~Succeeded("push_branch") =>
            /\ ~Called("push_branch")
            /\ git.fork = rb.initial.fork
      /\ Succeeded("open_pr") <=> rb.pr
      /\ rb.pr => git.pulls = rb.initial.pulls
                    \cup {[head |-> << "user", << "rebased", "develop",
                                                   git.pull.head_ref >> >>,
                           base |-> "develop"]}
      /\ ~rb.pr => ~Called("open_pr") /\ git.pulls = rb.initial.pulls
      /\ PushedBeforeOpened

\* a run with --no-push alone pushed the branch and opened the pull request
C17_Witness ==
    /\ pc = "r_done"
    /\ ~rb.push /\ rb.pr
    /\ git.fork = rb.rebased
    /\ git.pulls # {}

\* C18: in a clone whose only remote is not called origin, a run without
\* --remote fails, and a run with --remote <that remote> in which nothing
\* else fails completes, with the rebased pull request opened
C18_RemoteOption ==
    (Finished /\ rb.initial.remotes = {"gh"}) =>
      /\ rb.remote = "origin" => pc = "r_failed"
      /\ (rb.remote = "gh" /\ OnlyFails({"remote", "detached"}))
            => pc = "r_done" /\ (rb.pr => Succeeded("open_pr"))

\* the head of the pull request has no commit that the new base lacks
ZeroDivergent ==
    /\ rb.pr_head # << >>
    /\ Range(rb.pr_head) \subseteq Range(git.newbase)

Matches(filter, pull) ==
    \E i \in DOMAIN filter, l \in pull.labels : SameIgnoringCase(filter[i], l)

Directives(p) ==
    LET lines == Flat(p.comments)
    IN  SelectSeq(lines, LAMBDA l : l # << >> /\ l[1] = "--test")

\* the listed pulls that became candidates, in the order of the listing
AcceptedListed ==
    SelectSeq(origin_pulls[Main],
              LAMBDA p : p \in Range(candidate_pulls[Main]))

\* the text of a directive after its leading --test
Rest(l) == SelectSeq(Tail(l), LAMBDA piece : piece # "--test")

\* C21: directories.txt is written only when a candidate has a comment line
\* that begins with --test; it then holds one line per such line of the
\* candidates, and no line of a pull that was skipped or excluded
C21_DirectoriesFile ==
    pc = "selected" =>
      LET file == directories[Main]
          asked == Flat([i \in DOMAIN AcceptedListed |->
                            Directives(AcceptedListed[i])])
      IN  /\ file.open <=> asked # << >>
          /\ Len(file.lines) = Len(asked)
          /\ \A i \in DOMAIN asked : file.lines[i] = Rest(asked[i])
          /\ \A p \in Range(origin_pulls[Main]) \ Range(candidate_pulls[Main]) :
                \A i \in DOMAIN Directives(p) :
                   Rest(Directives(p)[i]) \in Range(file.lines) =>
                     \E j \in DOMAIN asked : Rest(asked[j]) = Rest(Directives(p)[i])

\* a candidate asked for two directories and a pull that was skipped asked
\* for another: the file holds the two lines of the candidate
C21_Witness ==
    /\ pc = "selected"
    /\ Len(directories[Main].lines) = 2
    /\ Len(candidate_pulls[Main]) = 1
    /\ \E p \in Range(origin_pulls[Main]) \ Range(candidate_pulls[Main]) :
          /\ p.base = args.base
          /\ Len(Directives(p)) = 1
          /\ Rest(Directives(p)[1]) \notin Range(directories[Main].lines)

\* the merge commits of a history, and what it began with
MergeCommits(h) == SelectSeq(h, LAMBDA c : c.kind = "merge")
Start(h) == SelectSeq(h, LAMBDA c : c.kind # "merge")

\* C22 as stated: while merge runs and when it returns, the history of the
\* branch is what it began with followed by one merge commit per merged
\* candidate, in ascending order of the numbers, with no commit of a
\* conflicting candidate; and an attempt that failed had started from that
\* history
C22_OneCommitPerMerged ==
    (pc \in {"m_loop", "m_except"} \/ Returned) =>
      LET h == head[m.self]
          merges == MergeCommits(h)
      IN  /\ h = Start(h) \o merges
          /\ [i \in DOMAIN merges |-> merges[i].pr] = Numbers(m.merged_pulls)
          /\ \A i, j \in DOMAIN merges : i < j => merges[i].pr < merges[j].pr
          /\ \A p \in Range(m.conflicting_pulls) :
                \A i \in DOMAIN h : h[i].pr # p.number
          /\ pc = "m_except" => m.premerge_sha = h

\* the merged candidates whose head the branch did not have already
NewlyMerged(pulls) == SelectSeq(pulls, LAMBDA p : p.number \notin contained)

\* C22: while merge runs and when it returns, the history of the branch is
\* what it began with followed by one merge commit per merged candidate
\* whose head the branch did not have already, in ascending order of the
\* numbers, with no commit of any other candidate; and an attempt that
\* failed had started from that history
C22_OneCommitPerNew ==
    (pc \in {"m_loop", "m_except"} \/ Returned) =>
      LET h == head[m.self]
          merges == MergeCommits(h)
      IN  /\ h = Start(h) \o merges
          /\ [i \in DOMAIN merges |-> merges[i].pr]
                = Numbers(NewlyMerged(m.merged_pulls))
          /\ \A i, j \in DOMAIN merges : i < j => merges[i].pr < merges[j].pr
          /\ \A p \in Range(m.conflicting_pulls) :
                \A i \in DOMAIN h : h[i].pr # p.number
          /\ pc = "m_except" => m.premerge_sha = h

\* merge returned with two merged candidates, the branch having had the
\* head of the second: the history has the merge commit of the first only
C22_Witness ==
    /\ Returned
    /\ Numbers(m.merged_pulls) = << 1, 2 >>
    /\ contained = {2}
    /\ Len(head[m.self]) = 1
    /\ head[m.self][1].pr = 1

\* the owners of the head branches of the candidates of repository r
Owners(r) == { p.head_login : p \in Range(candidate_pulls[r]) }

\* the calls ev of repository r on remote key that succeeded before call j
Before(j, ev, r, key) ==
    { i \in 1 .. (j - 1) :
        /\ trace[i].ev = ev /\ trace[i].ok
        /\ trace[i].repo = r /\ trace[i].key = key }

\* the calls a step has just made: a step makes one call or two
Latest == { j \in (Len(trace) - 1) .. Len(trace) : j >= 1 }

\* C23: when the merge of a candidate is attempted in a repository, one
\* remote has been added and then fetched for each owner of a head branch
\* among its candidates, none twice and none for anybody else; and no
\* remote is added or fetched once the attempts have begun
C23_OneRemotePerOwner ==
    \A j \in Latest :
      LET r == trace[j].repo IN
        /\ trace[j].ev \in {"rev_parse", "merge"} =>
              /\ \A login \in Owners(r) :
                    LET added == Before(j, "remote_add", r, login)
                        fetched == Before(j, "fetch", r, login)
                    IN  /\ Cardinality(added) = 1
                        /\ Cardinality(fetched) = 1
                        /\ \A a \in added, f \in fetched : a < f
              /\ \A i \in 1 .. (j - 1) :
                    (trace[i].ev \in {"remote_add", "fetch"}
                        /\ trace[i].repo = r)
                      => trace[i].key \in Owners(r)
        /\ trace[j].ev \in {"remote_add", "fetch"} =>
              \A i \in 1 .. (j - 1) :
                 trace[i].repo = r => trace[i].ev \notin {"rev_parse", "merge"}

\* two candidates of one owner were attempted in the top-level repository
\* after one remote had been added
C23_Witness ==
    /\ Attempted(Main) = << 1, 2 >>
    /\ Owners(Main) = {"alice"}
    /\ \E j \in DOMAIN trace :
          /\ trace[j].ev = "merge" /\ trace[j].repo = Main
          /\ Cardinality(Before(j, "remote_add", Main, "alice")) = 1

\* the repository a submodule is registered in, and the submodule of the
\* top-level repository it is or belongs to
Parent(r) == IF r <= MaxSub THEN Main ELSE r - MaxSub
Root(r) == IF r <= MaxSub THEN r ELSE r - MaxSub

\* the step of the processing of a submodule a call belongs to
PhaseOf ==
    [ev \in {"construct", "fast_forward", "find_candidates", "remote_add",
             "fetch", "rev_parse", "merge", "reset", "create_comment",
             "submodule_update", "foreach", "commit", "return",
             "remote_rm"} |->
       CASE ev = "construct" -> 0
         [] ev = "fast_forward" -> 1
         [] ev = "find_candidates" -> 2
         [] ev \in {"foreach", "commit", "return"} -> 4
         [] ev = "remote_rm" -> 5
         [] OTHER -> 3]
Phase(e) == IF e.ev \in DOMAIN PhaseOf THEN PhaseOf[e.ev] ELSE 6

\* C24: the calls made for one submodule come in the order fast-forward,
\* selection, merge, recursion, removal of the remotes; a submodule is
\* entered from the directory of the repository it is registered in; and
\* no call is made for a submodule once a later one of the enumeration has
\* been entered
C24_SubmoduleOrder ==
    \A j \in Latest :
      LET e == trace[j]
          phase == Phase(e)
          root == Root(e.repo)
      IN
        e.repo # Main =>
          /\ \A i \in 1 .. (j - 1) :
                LET t == trace[i] IN
                  t.repo # Main =>
                    /\ t.repo = e.repo => Phase(t) <= phase
                    /\ Root(t.repo) <= root
          /\ e.ev = "construct" => e.dir = Parent(e.repo)

\* the second submodule was entered after the first had been fast-forwarded,
\* merged, searched for submodules and rid of its remote
C24_Witness ==
    /\ \E j \in DOMAIN trace :
          /\ trace[j].ev = "construct" /\ trace[j].repo = 2 /\ trace[j].ok
          /\ \E a, b, c, d \in 1 .. (j - 1) :
                /\ a < b /\ b < c /\ c < d
                /\ trace[a].ev = "fast_forward" /\ trace[a].repo = 1
                /\ trace[b].ev = "merge" /\ trace[b].repo = 1
                /\ trace[c].ev = "foreach" /\ trace[c].repo = 1
                /\ trace[d].ev = "remote_rm" /\ trace[d].repo = 1

\* the commits of a history that update the submodules
UpdateCommits(h) == { i \in DOMAIN h : h[i].kind = "update" }

\* C25: a call of submodules that returns has created one commit that
\* updates the modules, in the directory of its repository, as its last
\* call and after every call made for its submodules, whether or not a
\* submodule has moved; and it has created no other
C25_OneUpdateCommit ==
    \A j \in Latest :
      LET e == trace[j] IN
        /\ (e.ev = "return" /\ e.ok) =>
              /\ j > 1
              /\ trace[j - 1].ev = "commit" /\ trace[j - 1].ok
              /\ trace[j - 1].repo = e.repo /\ trace[j - 1].dir = e.repo
              /\ \A i \in 1 .. (j - 2) :
                    ~(trace[i].ev = "commit" /\ trace[i].repo = e.repo)
              /\ (j = Len(trace) /\ cwd = e.repo) =>
                    /\ Cardinality(UpdateCommits(head[e.repo])) = 1
                    /\ Len(head[e.repo]) \in UpdateCommits(head[e.repo])
        /\ e.repo # Main => UpdateCommits(head[Parent(e.repo)]) = {}

\* the call on the second submodule, which has no submodule of its own and
\* in which nothing was merged, returned: its history is the one commit
C25_Witness ==
    /\ trace # << >>
    /\ trace[Len(trace)].ev = "return"
    /\ trace[Len(trace)].ok
    /\ trace[Len(trace)].repo = 2
    /\ submods[2] = << >>
    /\ Len(head[2]) = 1
    /\ head[2][1].kind = "update"

\* C26: when a merge is attempted in the top-level repository no call has
\* been made for a submodule and the submodules have not been listed; and
\* once the commit that updates the modules is made in the top-level
\* repository it stays the last commit of its history, as it is when the
\* run completes
C26_MergesThenSubmodules ==
    /\ \A j \in Latest :
          (trace[j].repo = Main /\ trace[j].ev \in {"rev_parse", "merge"}) =>
            \A i \in 1 .. (j - 1) :
               trace[i].repo = Main /\ trace[i].ev # "foreach"
    /\ UpdateCommits(head[Main]) # {} =>
          head[Main][Len(head[Main])].kind = "update"
    /\ pc = "done" =>
         /\ head[Main] # << >>
         /\ head[Main][Len(head[Main])].kind = "update"

\* a run completed in which a candidate was merged in the top-level
\* repository and another in a submodule
C26_Witness ==
    /\ pc = "done"
    /\ Len(head[Main]) = 2
    /\ head[Main][1].kind = "merge"
    /\ MergeCommits(head[1]) # << >>

\* the calls ev made for pull n of repository r before call j
CallsFor(j, ev, r, n) ==
    { i \in 1 .. (j - 1) :
        trace[i].ev = ev /\ trace[i].repo = r /\ trace[i].pr = n }

\* C27: a comment is created on the issue of a pull only after its merge
\* failed in this run, when --comment was given and a token is found, and
\* only once; a pull that was merged is never commented on
C27_CommentOnlyOnConflict ==
    \A j \in Latest :
      LET e == trace[j] IN
        /\ e.ev = "create_comment" =>
              /\ args.comment
              /\ token
              /\ \E i \in CallsFor(j, "merge", e.repo, e.pr) : ~trace[i].ok
              /\ \A i \in CallsFor(j, "merge", e.repo, e.pr) : ~trace[i].ok
              /\ CallsFor(j, "create_comment", e.repo, e.pr) = {}
        /\ (e.ev = "merge" /\ e.ok) =>
              /\ CallsFor(j, "create_comment", e.repo, e.pr) = {}
              /\ << e.repo, e.pr >> \notin comments

\* a run completed in which the first candidate was in conflict and was
\* commented on and the second was merged
C27_Witness ==
    /\ pc = "done"
    /\ comments = {<< Main, 1 >>}
    /\ Numbers(m.merged_pulls) = << 2 >>

\* the calls ev of a rebase run that succeeded
Calls(ev) == { i \in DOMAIN trace : trace[i].ev = ev /\ trace[i].ok }

\* C28 as stated: every merge commit and every commit that updates the
\* modules, in every repository of the run, has the identifier generated
\* from the base, the include and the exclude labels of the filter
C28_SameCommitId ==
    \A r \in Repos :
      \A i \in DOMAIN head[r] :
        head[r][i].kind \in {"merge", "update"} =>
          head[r][i].id = commit_id(Filters(args))

\* no call of git or of the hosting service has returned an error status
AllOk == \A i \in DOMAIN trace : trace[i].ok \/ trace[i].ev = "return"

\* C29 as stated: a run with --info in which no call of git or of the
\* hosting service fails, and --buildnumber is not given, completes
\* without error, having attempted no merge and added no remote anywhere
C29_InfoMergesNothing ==
    (args.info /\ pc \in {"done", "failed"} /\ AllOk
        /\ exc # "AttributeError") =>
      /\ pc = "done"
      /\ \A i \in DOMAIN trace :
            trace[i].ev \notin {"merge", "remote_add", "fetch"}
      /\ \A r \in Repos : MergeCommits(head[r]) = << >> /\ remotes[r] = {}

Pushed == { trace[i].key : i \in { j \in DOMAIN trace : trace[j].ev = "push" } }

\* C31: clean-sandbox asks for the deletion of a branch only with --force
\* and only when its name is not in the skip list, which holds master
\* whatever --skip names; a branch leaves the fork only that way; with
\* --dry-run nothing is pushed and the fork keeps its branches; and a run
\* that completes with --force has deleted the branches that are not in
\* the skip list, and only those
C31_DeletesIffForced ==
    pc \in {"c_start", "c_loop", "c_done", "c_failed"} =>
      /\ "master" \in Range(sandbox.skip)
      /\ \A b \in Pushed :
            sandbox.force /\ ~sandbox.dry_run /\ b \notin Range(sandbox.skip)
      /\ sandbox.initial \ sandbox.fork \subseteq Pushed
      /\ sandbox.fork \subseteq sandbox.initial
      /\ sandbox.dry_run => sandbox.fork = sandbox.initial /\ Pushed = {}
      /\ pc = "c_done" =>
            \A b \in sandbox.initial :
              b \notin sandbox.fork
                <=> (sandbox.force /\ b \notin Range(sandbox.skip))

\* a run with --force --skip develop completed on a fork with the three
\* branches: topic is gone, master and develop are there
C31_Witness ==
    /\ pc = "c_done"
    /\ sandbox.force
    /\ sandbox.skip = << "master", "develop" >>
    /\ sandbox.initial = {"master", "develop", "topic"}
    /\ sandbox.fork = {"master", "develop"}

\* the candidates whose merge commit is in a history
MergedIn(h) == { h[i].pr : i \in { k \in DOMAIN h : h[k].kind = "merge" } }

\* C32: once a failed attempt has been rolled back, the history of the
\* branch still holds the merge commit of every candidate the run merged
\* before it, each once, and the tree is clean
C32_RollbackKeepsMerged ==
    (pc = "m_loop" /\ LastConflicted) =>
      /\ \A i \in DOMAIN NewlyMerged(m.merged_pulls) :
            LET number == NewlyMerged(m.merged_pulls)[i].number IN
              /\ number \in MergedIn(head[m.self])
              /\ Cardinality({ k \in DOMAIN head[m.self] :
                                 /\ head[m.self][k].kind = "merge"
                                 /\ head[m.self][k].pr = number }) = 1
      /\ ~dirty[m.self]

\* the second candidate conflicted and was rolled back after the first
\* had been merged with a commit
C32_Witness ==
    /\ pc = "m_loop"
    /\ LastConflicted
    /\ Numbers(m.merged_pulls) = << 1 >>
    /\ Numbers(m.conflicting_pulls) = << 2 >>
    /\ 1 \notin contained
    /\ MergedIn(head[m.self]) = {1}

\* C33: when a run with --info has ended, the history of the top-level
\* repository and of every submodule is the one it began with
C33_InfoKeepsHead ==
    (args.info /\ pc \in {"done", "failed"}) =>
      \A r \in Repos : head[r] = << >>

\* the repository a running cleanup belongs to
Cleaned == IF pc = "top_rm" THEN Main ELSE Top.sub

\* C34: cleanup calls "git remote rm" once for every key of remotes() of
\* its repository, in their order, whether or not an earlier call failed;
\* and no turn of its loop changes the exception in flight, so that a run
\* that cleanup ends still has the exception that ended it, or none
C34_CleanupNeverRaises ==
    /\ [](pc \in {"s_rm", "top_rm"} =>
            LET keys == remote_keys(candidate_pulls[Cleaned])
                visited == Len(keys) - Len(pending)
            IN  /\ visited >= 0
                /\ pending = SubSeq(keys, visited + 1, Len(keys))
                /\ Len(trace) >= visited
                /\ \A i \in 1 .. visited :
                      LET e == trace[Len(trace) - visited + i] IN
                        /\ e.ev = "remote_rm"
                        /\ e.key = keys[i]
                        /\ e.repo = Cleaned)
    /\ [][(pc = "s_rm" \/ pc = "top_rm") => exc' = exc]_vars

\* a run ended with the exception raised when the remote of the first of
\* two owners could not be added: cleanup failed to remove that remote and
\* went on to the remote of the second owner
C34_Witness ==
    /\ pc = "failed"
    /\ exc = "Exception"
    /\ Len(remote_keys(candidate_pulls[Main])) = 2
    /\ Len(trace) >= 3
    /\ LET n == Len(trace) IN
          /\ trace[n - 2].ev = "remote_add" /\ ~trace[n - 2].ok
          /\ trace[n - 1].ev = "remote_rm" /\ ~trace[n - 1].ok
          /\ trace[n - 1].key = remote_keys(candidate_pulls[Main])[1]
          /\ trace[n].ev = "remote_rm"
          /\ trace[n].key = remote_keys(candidate_pulls[Main])[2]

====
